---- MODULE Spec2Model ----
(***************************************************************************)
(* Model of the puzzle simulators of illusion_of_thinking/simulators.py:   *)
(* TowerOfHanoiSimulator (the disk-stack engine) and                       *)
(* RiverCrossingSimulator (the crossing engine).                           *)
(*                                                                         *)
(* Python values are encoded so that malformed values can be held:         *)
(*   - a list element is [int |-> TRUE, v |-> n] for the integer n and     *)
(*     [int |-> FALSE, v |-> 0] for a value that is no integer;            *)
(*   - a peg is [seq |-> TRUE, d |-> <<...>>] for a list (bottom first,    *)
(*     top last) and [seq |-> FALSE, d |-> <<>>] for a value that cannot   *)
(*     be iterated (an int, None);                                         *)
(*   - a disk-stack state is [shape |-> "tuple" | "list" | "other",        *)
(*     pegs |-> <<peg, ...>>];                                             *)
(*   - an operation's outcome is "True", "False", "None" (returned         *)
(*     normally without a value), "ValueError" or "TypeError" (raised),    *)
(*     "dict" (the dictionary the params property builds).                 *)
(* Pegs are indexed 0..2 in moves, as in the source, and 1..3 in the       *)
(* sequences of the model.                                                 *)
(***************************************************************************)
EXTENDS Integers, Sequences, FiniteSets, TLC

VARIABLES
    kind,    \* the type of the simulator the caller created
    hN,      \* TowerOfHanoiSimulator.N
    hstate,  \* TowerOfHanoiSimulator.state
    hop,     \* the call on the disk-stack engine whose outcome the caller holds
             \* ("idle" between calls)
    hmove,   \* its move argument (<<>> when it has none)
    hcand,   \* its explicit state argument (NoCand when it has none)
    hret,    \* its outcome
    hvalid,  \* the outcome of the is_valid_state call it made ("none": it made none)
    hpre,    \* the engine state before it
    htrace,  \* how many moves of test_goal_state's sequence execute_move has been
             \* called with, in order and with no other change of state, since the
             \* default state (-1: the calls made are not that sequence)
    hmoves,  \* the list of moves given to execute_moves (<<>> when it was not called)
    hresp,   \* the response of execute_moves (NoHResp when it gave none)
    hsteps,  \* how many execute_move calls have returned True since the default
             \* state, where the caller counts them
    cN,      \* RiverCrossingSimulator.N
    ck,      \* RiverCrossingSimulator.k
    cstate,  \* RiverCrossingSimulator.state
    cop,     \* the call on the crossing engine whose outcome the caller holds
             \* ("idle" between calls)
    cmove,   \* its move argument (NoMove when it has none)
    ccand,   \* its explicit state argument (NoCCand when it has none)
    cret,    \* its outcome
    cvalid,  \* the outcome of the first is_valid_state call it made ("none": it
             \* made none)
    cpre,    \* the engine state before it
    ctrace,  \* how many moves of test_constraints' sequence execute_move has been
             \* called with, in order and with no other change of state, since the
             \* default state (-1: the calls made are not that sequence)
    cmoves,  \* the list of moves given to execute_moves (<<>> when it was not called)
    cresp,   \* the response of execute_moves (NoCResp when it gave none)
    environments, \* SimulationManager.environments: identifier -> session, a
                  \* session being [simulator |-> ..., last_accessed |-> ...]
    uuids,   \* how many identifiers uuid4 has drawn
    now,     \* what time.time() returns, counted from the manager's construction
    rop,     \* the call on the manager or the adapter whose outcome the caller
             \* holds ("idle" between calls)
    rid,     \* its identifier argument, or the identifier it issued (0: none)
    rret,    \* its outcome
    rargs,   \* the arguments of init_simulator or create_simulator, or the state
             \* given to reset_simulator (NoArgs in any other call)
    rpre,    \* SimulationManager.environments before it
    issued,  \* the identifiers of the sessions created so far
    removed, \* the identifiers that have left SimulationManager.environments
    calls    \* the calls running concurrently on the manager, one per thread

hvars == <<hN, hstate, hop, hmove, hcand, hret, hvalid, hpre, htrace, hmoves, hresp,
          hsteps>>

cvars == <<cN, ck, cstate, cop, cmove, ccand, cret, cvalid, cpre, ctrace, cmoves, cresp>>

mvars == <<environments, uuids, now, rop, rid, rret, rargs, rpre, issued, removed, calls>>

vars == <<kind, hN, hstate, hop, hmove, hcand, hret, hvalid, hpre, htrace, hmoves, hresp,
          hsteps,
          cN, ck, cstate, cop, cmove, ccand, cret, cvalid, cpre, ctrace, cmoves, cresp,
          environments, uuids, now, rop, rid, rret, rargs, rpre, issued, removed, calls>>

----------------------------------------------------------------------------
(* Bounds *)

MaxN == 3

\* up to this N, reset is offered every triple of short integer lists
MaxFullN == 2

\* the largest boat capacity k
MaxK == 2

\* the longest list of moves given to execute_moves
MaxBatch == 2

\* how many identifiers uuid4 draws
MaxIds == 3

\* how far the clock runs
MaxNow == 181

\* the largest N of a session's simulator
MaxRegN == 1

\* how many calls run on the manager concurrently
MaxThreads == 2

----------------------------------------------------------------------------
(* Python values *)

I(n) == [int |-> TRUE, v |-> n]

NaI == [int |-> FALSE, v |-> 0]

SeqPeg(d) == [seq |-> TRUE, d |-> d]

NonSeqPeg == [seq |-> FALSE, d |-> <<>>]

NoCand == [shape |-> "none", pegs |-> <<>>]

NoHResp ==
    [move_results |-> <<>>, final_state |-> NoCand, goal_reached |-> FALSE,
     all_moves_successful |-> FALSE]

Range(N) == [i \in 1..N |-> i]

RECURSIVE Insert(_, _)
Insert(x, s) ==
    IF s = <<>> THEN <<x>>
    ELSE IF x <= Head(s) THEN <<x>> \o s
    ELSE <<Head(s)>> \o Insert(x, Tail(s))

RECURSIVE Sorted(_)
Sorted(s) == IF s = <<>> THEN <<>> ELSE Insert(Head(s), Sorted(Tail(s)))

Vals(d) == [j \in 1..Len(d) |-> d[j].v]

----------------------------------------------------------------------------
(* TowerOfHanoiSimulator *)

\* the default state with the disks in ascending order
HDefaultStateAscending(N) ==
    [shape |-> "tuple",
     pegs  |-> <<SeqPeg([j \in 1..N |-> I(j)]), SeqPeg(<<>>), SeqPeg(<<>>)>>]

HDefaultState(N) ==
    [shape |-> "tuple",
     pegs  |-> <<SeqPeg([j \in 1..N |-> I(N + 1 - j)]), SeqPeg(<<>>), SeqPeg(<<>>)>>]

\* the loop over the pegs in is_valid_state, from peg i on
RECURSIVE HPegsCheck(_, _)
HPegsCheck(pegs, i) ==
    IF i > Len(pegs) THEN "ok"
    ELSE LET peg == pegs[i] IN
         IF ~peg.seq THEN "TypeError"
         ELSE IF ~(\A j \in 1..Len(peg.d) : peg.d[j].int /\ peg.d[j].v > 0)
              THEN "False"
         ELSE IF \E j \in 1..(Len(peg.d) - 1) : peg.d[j].v < peg.d[j + 1].v
              THEN "False"
         ELSE HPegsCheck(pegs, i + 1)

\* is_valid_state comparing the disks as a set: a disk held twice passes
HIsValidStateAsSet(N, s) ==
    IF s.shape # "tuple" \/ Len(s.pegs) # 3 THEN "False"
    ELSE LET r == HPegsCheck(s.pegs, 1) IN
         IF r # "ok" THEN r
         ELSE LET all_disks ==
                      Vals(s.pegs[1].d) \o Vals(s.pegs[2].d) \o Vals(s.pegs[3].d)
              IN IF { all_disks[j] : j \in 1..Len(all_disks) } = 1..N
                 THEN "True" ELSE "False"

HIsValidState(N, s) ==
    IF s.shape # "tuple" \/ Len(s.pegs) # 3 THEN "False"
    ELSE LET r == HPegsCheck(s.pegs, 1) IN
         IF r # "ok" THEN r
         ELSE LET all_disks ==
                      Sorted(Vals(s.pegs[1].d) \o Vals(s.pegs[2].d) \o Vals(s.pegs[3].d))
              IN IF all_disks = Range(N) THEN "True" ELSE "False"

\* is_valid_move without the check that the two pegs differ
HIsValidMoveSamePeg(N, s, move) ==
    LET vs == HIsValidState(N, s) IN
    IF vs = "TypeError" THEN "TypeError"
    ELSE IF vs = "False" THEN "False"
    ELSE IF Len(move) # 3 THEN "False"
    ELSE LET disk_id  == move[1]
             from_peg == move[2]
             to_peg   == move[3]
         IN IF ~(0 <= from_peg /\ from_peg < 3 /\ 0 <= to_peg /\ to_peg < 3)
            THEN "False"
            ELSE LET src == s.pegs[from_peg + 1].d
                     dst == s.pegs[to_peg + 1].d
                 IN IF Len(src) = 0 THEN "False"
                    ELSE IF src[Len(src)].v # disk_id THEN "False"
                    ELSE IF Len(dst) > 0 /\ disk_id > dst[Len(dst)].v THEN "False"
                    ELSE "True"

HIsValidMove(N, s, move) ==
    LET vs == HIsValidState(N, s) IN
    IF vs = "TypeError" THEN "TypeError"
    ELSE IF vs = "False" THEN "False"
    ELSE IF Len(move) # 3 THEN "False"
    ELSE LET disk_id  == move[1]
             from_peg == move[2]
             to_peg   == move[3]
         IN IF ~(0 <= from_peg /\ from_peg < 3 /\ 0 <= to_peg /\ to_peg < 3)
            THEN "False"
            ELSE IF from_peg = to_peg THEN "False"
            ELSE LET src == s.pegs[from_peg + 1].d
                     dst == s.pegs[to_peg + 1].d
                 IN IF Len(src) = 0 THEN "False"
                    ELSE IF src[Len(src)].v # disk_id THEN "False"
                    ELSE IF Len(dst) > 0 /\ disk_id > dst[Len(dst)].v THEN "False"
                    ELSE "True"

\* execute_move that carries the whole source peg over with the disk
HExecuteMoveWholeStack(N, s, move) ==
    LET vm == HIsValidMove(N, s, move) IN
    IF vm # "True" THEN [ret |-> vm, state |-> s]
    ELSE LET from_peg == move[2] + 1
             to_peg   == move[3] + 1
             src      == s.pegs[from_peg].d
             popped   == [s.pegs EXCEPT ![from_peg] = SeqPeg(<<>>)]
             pushed   == [popped EXCEPT ![to_peg] = SeqPeg(popped[to_peg].d \o src)]
         IN [ret |-> "True", state |-> [shape |-> "tuple", pegs |-> pushed]]

\* execute_move with a second stage, as in the crossing engine: a move that
\* is valid is turned down when it puts the disk on another disk
HExecuteMoveTwoStage(N, s, move) ==
    LET vm == HIsValidMove(N, s, move) IN
    IF vm # "True" THEN [ret |-> vm, state |-> s]
    ELSE LET from_peg == move[2] + 1
             to_peg   == move[3] + 1
             src      == s.pegs[from_peg].d
             disk     == src[Len(src)]
             popped   == [s.pegs EXCEPT ![from_peg] = SeqPeg(SubSeq(src, 1, Len(src) - 1))]
             pushed   == [popped EXCEPT ![to_peg] = SeqPeg(Append(popped[to_peg].d, disk))]
         IN IF Len(s.pegs[to_peg].d) > 0 THEN [ret |-> "False", state |-> s]
            ELSE [ret |-> "True", state |-> [shape |-> "tuple", pegs |-> pushed]]

\* execute_move that slips the disk under the destination peg
HExecuteMoveUnder(N, s, move) ==
    LET vm == HIsValidMove(N, s, move) IN
    IF vm # "True" THEN [ret |-> vm, state |-> s]
    ELSE LET from_peg == move[2] + 1
             to_peg   == move[3] + 1
             src      == s.pegs[from_peg].d
             disk     == src[Len(src)]
             popped   == [s.pegs EXCEPT ![from_peg] = SeqPeg(SubSeq(src, 1, Len(src) - 1))]
             pushed   == [popped EXCEPT ![to_peg] = SeqPeg(<<disk>> \o popped[to_peg].d)]
         IN [ret |-> "True", state |-> [shape |-> "tuple", pegs |-> pushed]]

\* execute_move: its outcome and the state it leaves
HExecuteMove(N, s, move) ==
    LET vm == HIsValidMove(N, s, move) IN
    IF vm # "True" THEN [ret |-> vm, state |-> s]
    ELSE LET from_peg == move[2] + 1
             to_peg   == move[3] + 1
             src      == s.pegs[from_peg].d
             disk     == src[Len(src)]
             popped   == [s.pegs EXCEPT ![from_peg] = SeqPeg(SubSeq(src, 1, Len(src) - 1))]
             pushed   == [popped EXCEPT ![to_peg] = SeqPeg(Append(popped[to_peg].d, disk))]
         IN [ret |-> "True", state |-> [shape |-> "tuple", pegs |-> pushed]]

\* the state reset(state) stages: a list is cast to a tuple
HStaged(state) ==
    IF state.shape = "list" THEN [state EXCEPT !.shape = "tuple"] ELSE state

\* reset(state) that reports a valid state as set and keeps the old one
HResetKeepsOld(N, s, state) ==
    LET staged == HStaged(state)
        valid  == HIsValidState(N, staged)
    IN IF valid = "TypeError" THEN [ret |-> "TypeError", state |-> staged]
       ELSE IF valid = "False" THEN [ret |-> "ValueError", state |-> s]
       ELSE [ret |-> "None", state |-> s]

\* reset(state) with an explicit state: its outcome and the state it leaves
HReset(N, s, state) ==
    LET staged == HStaged(state)
        valid  == HIsValidState(N, staged)
    IN IF valid = "TypeError" THEN [ret |-> "TypeError", state |-> staged]
       ELSE IF valid = "False" THEN [ret |-> "ValueError", state |-> s]
       ELSE [ret |-> "None", state |-> staged]

\* is_goal_reached that is content with any disk on the third peg
HIsGoalReachedNonEmpty(N, s) ==
    LET vs == HIsValidState(N, s) IN
    IF vs = "TypeError" THEN "TypeError"
    ELSE IF vs = "False" THEN "False"
    ELSE IF Len(s.pegs[3].d) >= 1 THEN "True" ELSE "False"

HIsGoalReached(N, s) ==
    LET vs == HIsValidState(N, s) IN
    IF vs = "TypeError" THEN "TypeError"
    ELSE IF vs = "False" THEN "False"
    ELSE IF Len(s.pegs[3].d) = N THEN "True" ELSE "False"

----------------------------------------------------------------------------
(* RiverCrossingSimulator                                                  *)
(* An entity name is <<"a", i>> for the actor a_i and <<"A", i>> for the   *)
(* agent A_i. A state is [shape |-> "tuple" | "list" | "other",            *)
(* boat |-> n, dict |-> TRUE | FALSE, pos |-> [names -> integers]]:        *)
(* "other" is a value that does not unpack into two, dict = FALSE a second *)
(* component that is no dictionary. A move is [list |-> TRUE | FALSE,      *)
(* names |-> <<name, ...>>].                                               *)

actors(N) == [i \in 1..N |-> <<"a", i>>]

agents(N) == [i \in 1..N |-> <<"A", i>>]

all_entities(N) == actors(N) \o agents(N)

Elems(s) == { s[j] : j \in 1..Len(s) }

CDefaultState(N) ==
    [shape |-> "tuple", boat |-> 0, dict |-> TRUE,
     pos |-> [e \in Elems(all_entities(N)) |-> 0]]

\* is_valid_state without the chaperone constraint
CIsValidStateNoChaperone(N, s) ==
    IF s.shape = "other" THEN FALSE
    ELSE LET boat_position    == s.boat
             entity_positions == s.pos
         IN IF boat_position \notin {0, 1} THEN FALSE
            ELSE IF ~s.dict THEN FALSE
            ELSE IF DOMAIN entity_positions # Elems(all_entities(N)) THEN FALSE
            ELSE IF ~(\A e \in DOMAIN entity_positions : entity_positions[e] \in {0, 1})
                 THEN FALSE
            ELSE TRUE

\* is_valid_state that looks for an actor without its agent on side 0 only
CIsValidStateLeftBankOnly(N, s) ==
    IF s.shape = "other" THEN FALSE
    ELSE LET boat_position    == s.boat
             entity_positions == s.pos
         IN IF boat_position \notin {0, 1} THEN FALSE
            ELSE IF ~s.dict THEN FALSE
            ELSE IF DOMAIN entity_positions # Elems(all_entities(N)) THEN FALSE
            ELSE IF ~(\A e \in DOMAIN entity_positions : entity_positions[e] \in {0, 1})
                 THEN FALSE
            ELSE IF \E i \in 1..N : \E j \in 1..N :
                       /\ i # j
                       /\ entity_positions[actors(N)[i]] = 0
                       /\ entity_positions[agents(N)[j]] = entity_positions[actors(N)[i]]
                       /\ entity_positions[agents(N)[i]] # entity_positions[actors(N)[i]]
                 THEN FALSE
            ELSE TRUE

CIsValidState(N, s) ==
    IF s.shape = "other" THEN FALSE
    ELSE LET boat_position    == s.boat
             entity_positions == s.pos
         IN IF boat_position \notin {0, 1} THEN FALSE
            ELSE IF ~s.dict THEN FALSE
            ELSE IF DOMAIN entity_positions # Elems(all_entities(N)) THEN FALSE
            ELSE IF ~(\A e \in DOMAIN entity_positions : entity_positions[e] \in {0, 1})
                 THEN FALSE
            ELSE IF \E i \in 1..N : \E j \in 1..N :
                       /\ i # j
                       /\ entity_positions[agents(N)[j]] = entity_positions[actors(N)[i]]
                       /\ entity_positions[agents(N)[i]] # entity_positions[actors(N)[i]]
                 THEN FALSE
            ELSE TRUE

\* the new state with the passengers carried over and the boat left behind
CNewStateBoatStays(s, move) ==
    LET new_boat_position == 1 - s.boat IN
    [shape |-> "tuple", boat |-> s.boat, dict |-> TRUE,
     pos |-> [e \in DOMAIN s.pos |->
                IF e \in Elems(move.names) THEN new_boat_position ELSE s.pos[e]]]

\* the new state of a boat that only ever lands on side 1
CNewStateOneWay(s, move) ==
    LET new_boat_position == 1 IN
    [shape |-> "tuple", boat |-> new_boat_position, dict |-> TRUE,
     pos |-> [e \in DOMAIN s.pos |->
                IF e \in Elems(move.names) THEN new_boat_position ELSE s.pos[e]]]

\* the state execute_move builds from s and checks before it commits
CNewState(s, move) ==
    LET new_boat_position == 1 - s.boat IN
    [shape |-> "tuple", boat |-> new_boat_position, dict |-> TRUE,
     pos |-> [e \in DOMAIN s.pos |->
                IF e \in Elems(move.names) THEN new_boat_position ELSE s.pos[e]]]

\* is_valid_move that also refuses a move whose resulting state is invalid
CIsValidMoveStrict(N, k, s, move) ==
    IF ~CIsValidState(N, s) THEN FALSE
    ELSE IF ~move.list \/ move.names = <<>> THEN FALSE
    ELSE IF Len(move.names) > k THEN FALSE
    ELSE IF ~(\A j \in 1..Len(move.names) : move.names[j] \in Elems(all_entities(N)))
         THEN FALSE
    ELSE IF Len(move.names) # Cardinality(Elems(move.names)) THEN FALSE
    ELSE IF ~(\A j \in 1..Len(move.names) : s.pos[move.names[j]] = s.boat) THEN FALSE
    ELSE CIsValidState(N, CNewState(s, move))

\* is_valid_move without the check for repeated names
CIsValidMoveRepeats(N, k, s, move) ==
    IF ~CIsValidState(N, s) THEN FALSE
    ELSE IF ~move.list \/ move.names = <<>> THEN FALSE
    ELSE IF Len(move.names) > k THEN FALSE
    ELSE IF ~(\A j \in 1..Len(move.names) : move.names[j] \in Elems(all_entities(N)))
         THEN FALSE
    ELSE IF ~(\A j \in 1..Len(move.names) : s.pos[move.names[j]] = s.boat) THEN FALSE
    ELSE TRUE

\* is_valid_move that lets the boat cross with nobody in it
CIsValidMoveEmptyBoat(N, k, s, move) ==
    IF ~CIsValidState(N, s) THEN FALSE
    ELSE IF ~move.list THEN FALSE
    ELSE IF Len(move.names) > k THEN FALSE
    ELSE IF ~(\A j \in 1..Len(move.names) : move.names[j] \in Elems(all_entities(N)))
         THEN FALSE
    ELSE IF Len(move.names) # Cardinality(Elems(move.names)) THEN FALSE
    ELSE IF ~(\A j \in 1..Len(move.names) : s.pos[move.names[j]] = s.boat) THEN FALSE
    ELSE TRUE

CIsValidMove(N, k, s, move) ==
    IF ~CIsValidState(N, s) THEN FALSE
    ELSE IF ~move.list \/ move.names = <<>> THEN FALSE
    ELSE IF Len(move.names) > k THEN FALSE
    ELSE IF ~(\A j \in 1..Len(move.names) : move.names[j] \in Elems(all_entities(N)))
         THEN FALSE
    ELSE IF Len(move.names) # Cardinality(Elems(move.names)) THEN FALSE
    ELSE IF ~(\A j \in 1..Len(move.names) : s.pos[move.names[j]] = s.boat) THEN FALSE
    ELSE TRUE

\* execute_move without the check of the new state
CExecuteMoveUnchecked(N, k, s, move) ==
    IF ~CIsValidMove(N, k, s, move) THEN [ret |-> "False", state |-> s]
    ELSE [ret |-> "True", state |-> CNewState(s, move)]

\* execute_move that commits the new state before it checks it
CExecuteMoveCommitFirst(N, k, s, move) ==
    IF ~CIsValidMove(N, k, s, move) THEN [ret |-> "False", state |-> s]
    ELSE LET new_state == CNewState(s, move) IN
         IF ~CIsValidState(N, new_state) THEN [ret |-> "False", state |-> new_state]
         ELSE [ret |-> "True", state |-> new_state]

\* execute_move: its outcome and the state it leaves
CExecuteMove(N, k, s, move) ==
    IF ~CIsValidMove(N, k, s, move) THEN [ret |-> "False", state |-> s]
    ELSE LET new_state == CNewState(s, move) IN
         IF ~CIsValidState(N, new_state) THEN [ret |-> "False", state |-> s]
         ELSE [ret |-> "True", state |-> new_state]

\* the state reset(state) stages: a list is cast to a tuple
CStaged(state) ==
    IF state.shape = "list" THEN [state EXCEPT !.shape = "tuple"] ELSE state

\* reset(state) that does not put the old state back
CResetNoRestore(N, s, state) ==
    LET staged == CStaged(state) IN
    IF ~CIsValidState(N, staged) THEN [ret |-> "ValueError", state |-> staged]
    ELSE [ret |-> "None", state |-> staged]

\* reset(state) with an explicit state: its outcome and the state it leaves
CReset(N, s, state) ==
    LET staged == CStaged(state) IN
    IF ~CIsValidState(N, staged) THEN [ret |-> "ValueError", state |-> s]
    ELSE [ret |-> "None", state |-> staged]

\* is_goal_reached that also wants the boat on side 1
CIsGoalReachedWithBoat(s) ==
    IF s.shape = "other" \/ ~s.dict THEN FALSE
    ELSE s.boat = 1 /\ \A e \in DOMAIN s.pos : s.pos[e] = 1

CIsGoalReached(s) ==
    IF s.shape = "other" \/ ~s.dict THEN FALSE
    ELSE \A e \in DOMAIN s.pos : s.pos[e] = 1

----------------------------------------------------------------------------
(* execute_moves of the adapter (mcp_server.execute_moves and              *)
(* ExecuteMovesTool.forward run the same loop). A disk-stack move is the   *)
(* sequence of its elements whether it came as a list or as a tuple:       *)
(* execute_move unpacks either alike, so the cast of a three-element list  *)
(* to a tuple leaves that sequence as it is.                               *)

\* the loop over the moves from index i on (counted from 1): the results
\* gathered, the state left, and whether execute_move raised
RECURSIVE HMoveLoop(_, _, _, _, _)
HMoveLoop(N, s, moves, i, move_results) ==
    IF i > Len(moves) THEN [raised |-> FALSE, state |-> s, move_results |-> move_results]
    ELSE LET r == HExecuteMove(N, s, moves[i]) IN
         IF r.ret = "TypeError"
         THEN [raised |-> TRUE, state |-> r.state, move_results |-> move_results]
         ELSE LET move_was_successful == (r.ret = "True")
                  appended == Append(move_results,
                                     [move_index |-> i - 1, move |-> moves[i],
                                      successful |-> move_was_successful])
              IN IF ~move_was_successful
                 THEN [raised |-> FALSE, state |-> r.state, move_results |-> appended]
                 ELSE HMoveLoop(N, r.state, moves, i + 1, appended)

\* execute_moves that puts the engine back where it was when a move fails
HExecuteMovesRollback(N, s, moves) ==
    LET l == HMoveLoop(N, s, moves, 1, <<>>) IN
    IF l.raised THEN [ret |-> "TypeError", state |-> l.state, resp |-> NoHResp]
    ELSE LET all_ok == \A j \in 1..Len(l.move_results) : l.move_results[j].successful
             final  == IF all_ok THEN l.state ELSE s
             goal_reached == HIsGoalReached(N, final)
         IN IF goal_reached = "TypeError"
            THEN [ret |-> "TypeError", state |-> final, resp |-> NoHResp]
            ELSE [ret |-> "response", state |-> final,
                  resp |-> [move_results |-> l.move_results,
                            final_state |-> final,
                            goal_reached |-> (goal_reached = "True"),
                            all_moves_successful |-> all_ok]]

\* execute_moves on a disk-stack engine: its outcome ("response", or the
\* exception that left it), the state it leaves and its response
HExecuteMoves(N, s, moves) ==
    LET l == HMoveLoop(N, s, moves, 1, <<>>) IN
    IF l.raised THEN [ret |-> "TypeError", state |-> l.state, resp |-> NoHResp]
    ELSE LET goal_reached == HIsGoalReached(N, l.state) IN
         IF goal_reached = "TypeError"
         THEN [ret |-> "TypeError", state |-> l.state, resp |-> NoHResp]
         ELSE [ret |-> "response", state |-> l.state,
               resp |-> [move_results |-> l.move_results,
                         final_state |-> l.state,
                         goal_reached |-> (goal_reached = "True"),
                         all_moves_successful |->
                             \A j \in 1..Len(l.move_results) :
                                 l.move_results[j].successful]]

RECURSIVE CMoveLoop(_, _, _, _, _, _)
CMoveLoop(N, k, s, moves, i, move_results) ==
    IF i > Len(moves) THEN [state |-> s, move_results |-> move_results]
    ELSE LET r == CExecuteMove(N, k, s, moves[i])
             move_was_successful == (r.ret = "True")
             appended == Append(move_results,
                                [move_index |-> i - 1, move |-> moves[i],
                                 successful |-> move_was_successful])
         IN IF ~move_was_successful
            THEN [state |-> r.state, move_results |-> appended]
            ELSE CMoveLoop(N, k, r.state, moves, i + 1, appended)

\* execute_moves on a crossing engine
CExecuteMoves(N, k, s, moves) ==
    LET l == CMoveLoop(N, k, s, moves, 1, <<>>) IN
    [ret |-> "response", state |-> l.state,
     resp |-> [move_results |-> l.move_results,
               final_state |-> l.state,
               goal_reached |-> CIsGoalReached(l.state),
               all_moves_successful |->
                   \A j \in 1..Len(l.move_results) : l.move_results[j].successful]]

----------------------------------------------------------------------------
(* Arguments of the disk-stack calls *)

RECURSIVE DescSeq(_)
DescSeq(S) ==
    IF S = {} THEN <<>>
    ELSE LET m == CHOOSE x \in S : \A y \in S : y <= x
         IN <<I(m)>> \o DescSeq(S \ {m})

\* the legal configurations of N disks: every placement of the disks on the pegs
HLegalPegs(N) ==
    { [p \in 1..3 |-> SeqPeg(DescSeq({d \in 1..N : f[d] = p}))] : f \in [1..N -> 1..3] }

\* the legal configurations the defects are put into: all disks but the
\* smallest on one peg
HDefectBases(N) ==
    { [p \in 1..3 |-> SeqPeg(DescSeq({d \in 1..N : f[d] = p}))] :
        f \in {g \in [1..N -> 1..3] : \A d \in 2..N : g[d] = g[N]} }

Reverse(d) == [j \in 1..Len(d) |-> d[Len(d) + 1 - j]]

HDefects == {"reverse", "extra", "dup", "drop", "zero", "nonint", "nonseq"}

\* a peg with one defect put into it
HDefect(peg, k, N) ==
    CASE k = "reverse" -> SeqPeg(Reverse(peg.d))
      [] k = "extra"   -> SeqPeg(Append(peg.d, I(N + 1)))
      [] k = "dup"     -> SeqPeg(Append(peg.d, I(1)))
      [] k = "drop"    -> SeqPeg(SubSeq(peg.d, 1, Len(peg.d) - 1))
      [] k = "zero"    -> SeqPeg(Append(peg.d, I(0)))
      [] k = "nonint"  -> SeqPeg(Append(peg.d, NaI))
      [] k = "nonseq"  -> NonSeqPeg

\* the peg triples offered to reset: the legal ones, the legal ones with one
\* defect in one peg, and those with a reversed peg and a peg that is no sequence
HPegInputs(N) ==
    HLegalPegs(N)
    \cup { [pegs EXCEPT ![i] = HDefect(pegs[i], k, N)] :
              pegs \in HDefectBases(N), i \in 1..3, k \in HDefects }
    \cup { [pegs EXCEPT ![ij[1]] = HDefect(pegs[ij[1]], "reverse", N),
                        ![ij[2]] = NonSeqPeg] :
              pegs \in HDefectBases(N), ij \in {x \in (1..3) \X (1..3) : x[1] # x[2]} }

\* the lists of positive integers up to N + 1 of length n
RECURSIVE HLists(_, _)
HLists(N, n) ==
    IF n = 0 THEN {<<>>}
    ELSE { Append(d, I(x)) : d \in HLists(N, n - 1), x \in 1..(N + 1) }

\* every triple of lists of positive integers up to N + 1 holding at most N + 1
\* elements together
HFullPegInputs(N) ==
    { <<SeqPeg(a), SeqPeg(b), SeqPeg(c)>> :
        <<a, b, c>> \in
            UNION { HLists(N, n[1]) \X HLists(N, n[2]) \X HLists(N, n[3]) :
                      n \in {m \in (0..(N + 1)) \X (0..(N + 1)) \X (0..(N + 1)) :
                                m[1] + m[2] + m[3] <= N + 1} } }

\* the explicit states offered to reset: triples as a tuple or as a list, a pair
\* and a quadruple of pegs, and a value that is neither a tuple nor a list
HCandidates(N) ==
    { [shape |-> sh, pegs |-> pegs] : sh \in {"tuple", "list"}, pegs \in HPegInputs(N) }
    \cup { [shape |-> "tuple", pegs |-> pegs] :
              pegs \in IF N <= MaxFullN THEN HFullPegInputs(N) ELSE {} }
    \cup { [shape |-> "tuple", pegs |-> SubSeq(pegs, 1, 2)] : pegs \in HLegalPegs(N) }
    \cup { [shape |-> "list", pegs |-> Append(pegs, SeqPeg(<<>>))] : pegs \in HLegalPegs(N) }
    \cup { [shape |-> "other", pegs |-> <<>>] }

\* the moves offered: every triple around the legal range, and two values that
\* do not unpack into three
HMoves(N) ==
    { <<d, f, t>> : d \in 0..(N + 1), f \in -1..3, t \in -1..3 }
    \cup { <<1, 0>>, <<1, 0, 1, 2>> }

\* the moves of test_goal_state, in its order
HScenario == << <<1, 0, 1>>, <<2, 0, 2>>, <<1, 1, 2>> >>

\* the sequences over S of length n
RECURSIVE SeqsOfLen(_, _)
SeqsOfLen(S, n) ==
    IF n = 0 THEN {<<>>}
    ELSE { Append(q, x) : q \in SeqsOfLen(S, n - 1), x \in S }

\* the moves the lists given to execute_moves are made of: those of
\* test_goal_state and one that does not unpack into three
HBatchMoves == { HScenario[j] : j \in 1..Len(HScenario) } \cup { <<1, 0>> }

\* the lists of moves given to execute_moves
HBatches == UNION { SeqsOfLen(HBatchMoves, n) : n \in 0..MaxBatch }

----------------------------------------------------------------------------
(* The disk-stack engine's operations *)

HStart ==
    /\ hN \in 1..MaxN
    /\ hstate = HDefaultState(hN)
    /\ hop = "idle"
    /\ hmove = <<>>
    /\ hcand = NoCand
    /\ hret = "None"
    /\ hvalid = "none"
    /\ hpre = HDefaultState(hN)
    /\ htrace = 0
    /\ hmoves = <<>>
    /\ hresp = NoHResp
    /\ hsteps = 0

HCallResetDefault ==
    /\ kind = "TowerOfHanoi"
    /\ hop = "idle"
    /\ hstate' = HDefaultState(hN)
    /\ hop' = "reset_default"
    /\ hmove' = <<>>
    /\ hcand' = NoCand
    /\ hret' = "None"
    /\ hvalid' = "none"
    /\ hpre' = hstate
    /\ htrace' = 0
    /\ UNCHANGED hN
    /\ UNCHANGED <<kind, hmoves, hresp, hsteps>>
    /\ UNCHANGED <<cvars, mvars>>

HCallReset ==
    /\ kind = "TowerOfHanoi"
    /\ hop = "idle"
    /\ \E state \in HCandidates(hN) :
        LET r == HReset(hN, hstate, state) IN
        /\ hstate' = r.state
        /\ hop' = "reset"
        /\ hmove' = <<>>
        /\ hcand' = state
        /\ hret' = r.ret
        /\ hvalid' = HIsValidState(hN, HStaged(state))
        /\ hpre' = hstate
        /\ htrace' = -1
        /\ UNCHANGED hN
    /\ UNCHANGED <<kind, hmoves, hresp, hsteps>>
    /\ UNCHANGED <<cvars, mvars>>

HCallExecuteMove ==
    /\ kind = "TowerOfHanoi"
    /\ hop = "idle"
    /\ \E move \in HMoves(hN) :
        LET r == HExecuteMove(hN, hstate, move) IN
        /\ hstate' = r.state
        /\ hop' = "execute_move"
        /\ hmove' = move
        /\ hcand' = NoCand
        /\ hret' = r.ret
        /\ hvalid' = HIsValidState(hN, hstate)
        /\ hpre' = hstate
        /\ htrace' = IF htrace \in 0..2 /\ move = HScenario[htrace + 1]
                     THEN htrace + 1
                     ELSE -1
        /\ UNCHANGED hN
    /\ UNCHANGED <<kind, hmoves, hresp, hsteps>>
    /\ UNCHANGED <<cvars, mvars>>

\* is_valid_move that makes the move it has found valid
HCallIsValidMoveCommitting ==
    /\ kind = "TowerOfHanoi"
    /\ hop = "idle"
    /\ \E move \in HMoves(hN) :
        /\ hop' = "is_valid_move"
        /\ hmove' = move
        /\ hcand' = NoCand
        /\ hret' = HIsValidMove(hN, hstate, move)
        /\ hvalid' = HIsValidState(hN, hstate)
        /\ hpre' = hstate
        /\ hstate' = HExecuteMove(hN, hstate, move).state
        /\ UNCHANGED <<hN, htrace>>
    /\ UNCHANGED <<kind, hmoves, hresp, hsteps>>
    /\ UNCHANGED <<cvars, mvars>>

HCallIsValidMove ==
    /\ kind = "TowerOfHanoi"
    /\ hop = "idle"
    /\ \E move \in HMoves(hN) :
        /\ hop' = "is_valid_move"
        /\ hmove' = move
        /\ hcand' = NoCand
        /\ hret' = HIsValidMove(hN, hstate, move)
        /\ hvalid' = HIsValidState(hN, hstate)
        /\ hpre' = hstate
        /\ UNCHANGED <<hN, hstate, htrace>>
    /\ UNCHANGED <<kind, hmoves, hresp, hsteps>>
    /\ UNCHANGED <<cvars, mvars>>

HCallIsValidState ==
    /\ kind = "TowerOfHanoi"
    /\ hop = "idle"
    /\ hop' = "is_valid_state"
    /\ hmove' = <<>>
    /\ hcand' = NoCand
    /\ hret' = HIsValidState(hN, hstate)
    /\ hvalid' = HIsValidState(hN, hstate)
    /\ hpre' = hstate
    /\ UNCHANGED <<hN, hstate, htrace>>
    /\ UNCHANGED <<kind, hmoves, hresp, hsteps>>
    /\ UNCHANGED <<cvars, mvars>>

HCallIsGoalReached ==
    /\ kind = "TowerOfHanoi"
    /\ hop = "idle"
    /\ hop' = "is_goal_reached"
    /\ hmove' = <<>>
    /\ hcand' = NoCand
    /\ hret' = HIsGoalReached(hN, hstate)
    /\ hvalid' = HIsValidState(hN, hstate)
    /\ hpre' = hstate
    /\ UNCHANGED <<hN, hstate, htrace>>
    /\ UNCHANGED <<kind, hmoves, hresp, hsteps>>
    /\ UNCHANGED <<cvars, mvars>>

\* the caller takes the outcome of the call
HReturn ==
    /\ kind = "TowerOfHanoi"
    /\ hop # "idle"
    /\ hop' = "idle"
    /\ hmove' = <<>>
    /\ hcand' = NoCand
    /\ hret' = "None"
    /\ hvalid' = "none"
    /\ hpre' = hstate
    /\ hmoves' = <<>>
    /\ hresp' = NoHResp
    /\ UNCHANGED <<kind, hN, hstate, htrace, hsteps>>
    /\ UNCHANGED <<cvars, mvars>>

\* a caller that counts its way from the default state: execute_move is
\* called and its outcome taken at once; a move that returns True is counted,
\* and no more than 2^N of them are made
HCountedExecuteMove ==
    /\ kind = "TowerOfHanoi"
    /\ hop = "idle"
    /\ \E move \in HMoves(hN) :
        \E r \in { HExecuteMove(hN, hstate, move) } :
            /\ r.ret = "True" => hsteps < 2 ^ hN
            /\ hstate' = r.state
            /\ hsteps' = IF r.ret = "True" THEN hsteps + 1 ELSE hsteps
    /\ UNCHANGED <<kind, hN, hop, hmove, hcand, hret, hvalid, hpre, htrace, hmoves, hresp>>
    /\ UNCHANGED <<cvars, mvars>>

HNext ==
    \/ HCallResetDefault
    \/ HCallReset
    \/ HCallExecuteMove
    \/ HCallIsValidMove
    \/ HCallIsValidState
    \/ HCallIsGoalReached
    \/ HReturn


----------------------------------------------------------------------------
(* Arguments of the crossing calls *)

NoMove == [list |-> TRUE, names |-> <<>>]

NoCCand == [shape |-> "none", boat |-> 0, dict |-> FALSE, pos |-> <<>>]

NoCResp ==
    [move_results |-> <<>>, final_state |-> NoCCand, goal_reached |-> FALSE,
     all_moves_successful |-> FALSE]

\* the names moves are made of: the entities and one name that is none
CNames(N) == Append(all_entities(N), <<"A", N + 1>>)

\* the names of S in the order of CNames
CListOf(N, S) == SelectSeq(CNames(N), LAMBDA e : e \in S)

\* the moves offered: every set of at most k + 1 names in both orders, the same
\* with the first name repeated, the empty list, an unknown name, and a tuple
CMoves(N, k) ==
    LET sets == { S \in SUBSET Elems(CNames(N)) : Cardinality(S) \in 1..(k + 1) } IN
    { [list |-> TRUE, names |-> CListOf(N, S)] : S \in sets }
    \cup { [list |-> TRUE, names |-> Reverse(CListOf(N, S))] : S \in sets }
    \cup { [list |-> TRUE, names |-> Append(CListOf(N, S), CListOf(N, S)[1])] :
             S \in { S \in sets : Cardinality(S) <= k } }
    \cup { [list |-> TRUE, names |-> <<>>],
           [list |-> TRUE, names |-> << <<"x", 0>> >>],
           [list |-> FALSE, names |-> << <<"a", 1>> >>] }

\* the boat sides and mappings every entity of which is on side 0 or 1
CSided(N) ==
    { [shape |-> sh, boat |-> b, dict |-> TRUE, pos |-> f] :
        sh \in {"tuple", "list"}, b \in {0, 1}, f \in [Elems(all_entities(N)) -> {0, 1}] }

\* the states the defects are put into: everything on one side
CDefectBases(N) ==
    { [shape |-> "tuple", boat |-> b, dict |-> TRUE,
       pos |-> [e \in Elems(all_entities(N)) |-> c]] : b \in {0, 1}, c \in {0, 1} }

\* the explicit states offered to reset: the sided ones, and states with a boat
\* side or an entity side outside {0,1}, a missing or an extra entity, a second
\* component that is no dictionary, or no pair at all
CCandidates(N) ==
    CSided(N)
    \cup { [s EXCEPT !.boat = b] : s \in CDefectBases(N), b \in {-1, 2} }
    \cup { [s EXCEPT !.pos[e] = 2] : s \in CDefectBases(N), e \in Elems(all_entities(N)) }
    \cup { [s EXCEPT !.pos = [x \in (DOMAIN s.pos) \ {e} |-> s.pos[x]]] :
             s \in CDefectBases(N), e \in Elems(all_entities(N)) }
    \cup { [s EXCEPT !.pos = [x \in (DOMAIN s.pos) \cup {<<"a", N + 1>>, <<"A", N + 1>>}
                                 |-> s.boat]] : s \in CDefectBases(N) }
    \cup { [s EXCEPT !.dict = FALSE, !.pos = <<>>] : s \in CDefectBases(N) }
    \cup { [shape |-> "other", boat |-> 0, dict |-> FALSE, pos |-> <<>>] }

\* the moves of test_constraints, in its order
CScenario ==
    << [list |-> TRUE, names |-> << <<"A", 1>>, <<"a", 1>> >>],
       [list |-> TRUE, names |-> << <<"A", 1>> >>],
       [list |-> TRUE, names |-> << <<"a", 2>>, <<"A", 2>> >>] >>

\* the moves the lists given to execute_moves are made of: those of
\* test_constraints and the empty list
CBatchMoves ==
    { CScenario[j] : j \in 1..Len(CScenario) } \cup { [list |-> TRUE, names |-> <<>>] }

\* the lists of moves given to execute_moves
CBatches == UNION { SeqsOfLen(CBatchMoves, n) : n \in 0..MaxBatch }

----------------------------------------------------------------------------
(* The crossing engine's operations *)

CStart ==
    /\ cN \in 1..MaxN
    /\ ck \in 1..MaxK
    /\ cstate = CDefaultState(cN)
    /\ cop = "idle"
    /\ cmove = NoMove
    /\ ccand = NoCCand
    /\ cret = "None"
    /\ cvalid = "none"
    /\ cpre = CDefaultState(cN)
    /\ ctrace = 0
    /\ cmoves = <<>>
    /\ cresp = NoCResp

CCallResetDefault ==
    /\ kind = "RiverCrossing"
    /\ cop = "idle"
    /\ cstate' = CDefaultState(cN)
    /\ cop' = "reset_default"
    /\ cmove' = NoMove
    /\ ccand' = NoCCand
    /\ cret' = "None"
    /\ cvalid' = "none"
    /\ cpre' = cstate
    /\ ctrace' = 0
    /\ UNCHANGED <<cN, ck>>
    /\ UNCHANGED <<kind, cmoves, cresp>>
    /\ UNCHANGED <<hvars, mvars>>

CCallReset ==
    /\ kind = "RiverCrossing"
    /\ cop = "idle"
    /\ \E state \in CCandidates(cN) :
        LET r == CReset(cN, cstate, state) IN
        /\ cstate' = r.state
        /\ cop' = "reset"
        /\ cmove' = NoMove
        /\ ccand' = state
        /\ cret' = r.ret
        /\ cvalid' = IF CIsValidState(cN, CStaged(state)) THEN "True" ELSE "False"
        /\ cpre' = cstate
        /\ ctrace' = -1
        /\ UNCHANGED <<cN, ck>>
    /\ UNCHANGED <<kind, cmoves, cresp>>
    /\ UNCHANGED <<hvars, mvars>>

CCallExecuteMove ==
    /\ kind = "RiverCrossing"
    /\ cop = "idle"
    /\ \E move \in CMoves(cN, ck) :
        LET r == CExecuteMove(cN, ck, cstate, move) IN
        /\ cstate' = r.state
        /\ cop' = "execute_move"
        /\ cmove' = move
        /\ ccand' = NoCCand
        /\ cret' = r.ret
        /\ cvalid' = IF CIsValidState(cN, cstate) THEN "True" ELSE "False"
        /\ cpre' = cstate
        /\ ctrace' = IF ctrace \in 0..2 /\ move = CScenario[ctrace + 1]
                     THEN ctrace + 1
                     ELSE -1
        /\ UNCHANGED <<cN, ck>>
    /\ UNCHANGED <<kind, cmoves, cresp>>
    /\ UNCHANGED <<hvars, mvars>>

CCallIsValidMove ==
    /\ kind = "RiverCrossing"
    /\ cop = "idle"
    /\ \E move \in CMoves(cN, ck) :
        /\ cop' = "is_valid_move"
        /\ cmove' = move
        /\ ccand' = NoCCand
        /\ cret' = IF CIsValidMove(cN, ck, cstate, move) THEN "True" ELSE "False"
        /\ cvalid' = IF CIsValidState(cN, cstate) THEN "True" ELSE "False"
        /\ cpre' = cstate
        /\ UNCHANGED <<cN, ck, cstate, ctrace>>
    /\ UNCHANGED <<kind, cmoves, cresp>>
    /\ UNCHANGED <<hvars, mvars>>

CCallIsValidState ==
    /\ kind = "RiverCrossing"
    /\ cop = "idle"
    /\ cop' = "is_valid_state"
    /\ cmove' = NoMove
    /\ ccand' = NoCCand
    /\ cret' = IF CIsValidState(cN, cstate) THEN "True" ELSE "False"
    /\ cvalid' = IF CIsValidState(cN, cstate) THEN "True" ELSE "False"
    /\ cpre' = cstate
    /\ UNCHANGED <<cN, ck, cstate, ctrace>>
    /\ UNCHANGED <<kind, cmoves, cresp>>
    /\ UNCHANGED <<hvars, mvars>>

CCallIsGoalReached ==
    /\ kind = "RiverCrossing"
    /\ cop = "idle"
    /\ cop' = "is_goal_reached"
    /\ cmove' = NoMove
    /\ ccand' = NoCCand
    /\ cret' = IF CIsGoalReached(cstate) THEN "True" ELSE "False"
    /\ cvalid' = "none"
    /\ cpre' = cstate
    /\ UNCHANGED <<cN, ck, cstate, ctrace>>
    /\ UNCHANGED <<kind, cmoves, cresp>>
    /\ UNCHANGED <<hvars, mvars>>

\* the caller takes the outcome of the call
CReturn ==
    /\ kind = "RiverCrossing"
    /\ cop # "idle"
    /\ cop' = "idle"
    /\ cmove' = NoMove
    /\ ccand' = NoCCand
    /\ cret' = "None"
    /\ cvalid' = "none"
    /\ cpre' = cstate
    /\ cmoves' = <<>>
    /\ cresp' = NoCResp
    /\ UNCHANGED <<kind, cN, ck, cstate, ctrace>>
    /\ UNCHANGED <<hvars, mvars>>

CNext ==
    \/ CCallResetDefault
    \/ CCallReset
    \/ CCallExecuteMove
    \/ CCallIsValidMove
    \/ CCallIsValidState
    \/ CCallIsGoalReached
    \/ CReturn

----------------------------------------------------------------------------
(* The adapter's operations on a simulator of either type *)

HCallExecuteMoves ==
    /\ kind = "TowerOfHanoi"
    /\ hop = "idle"
    /\ \E moves \in HBatches :
        LET r == HExecuteMoves(hN, hstate, moves) IN
        /\ hstate' = r.state
        /\ hop' = "execute_moves"
        /\ hmove' = <<>>
        /\ hcand' = NoCand
        /\ hret' = r.ret
        /\ hvalid' = "none"
        /\ hpre' = hstate
        /\ htrace' = -1
        /\ hmoves' = moves
        /\ hresp' = r.resp
        /\ UNCHANGED <<kind, hN, hsteps>>
    /\ UNCHANGED <<cvars, mvars>>

CCallExecuteMoves ==
    /\ kind = "RiverCrossing"
    /\ cop = "idle"
    /\ \E moves \in CBatches :
        LET r == CExecuteMoves(cN, ck, cstate, moves) IN
        /\ cstate' = r.state
        /\ cop' = "execute_moves"
        /\ cmove' = NoMove
        /\ ccand' = NoCCand
        /\ cret' = r.ret
        /\ cvalid' = "none"
        /\ cpre' = cstate
        /\ ctrace' = -1
        /\ cmoves' = moves
        /\ cresp' = r.resp
        /\ UNCHANGED <<kind, cN, ck>>
    /\ UNCHANGED <<hvars, mvars>>

\* the operations the adapter offers on a simulator: reset_simulator (with
\* and without a state), execute_moves, and get_state, which asks
\* is_goal_reached
SNext ==
    \/ HCallResetDefault
    \/ HCallReset
    \/ HCallExecuteMoves
    \/ HCallIsGoalReached
    \/ HReturn
    \/ CCallResetDefault
    \/ CCallReset
    \/ CCallExecuteMoves
    \/ CCallIsGoalReached
    \/ CReturn

----------------------------------------------------------------------------
(* SimulationManager of mcp_server.py, the session registry, and the       *)
(* adapter's operations, which reach a simulator through it.               *)
(* A simulator type is [enum |-> TRUE, name |-> n] for the member n of the *)
(* enumeration SimulationType and [enum |-> FALSE, name |-> n] for the     *)
(* string n. An identifier is the number of the uuid4 draw that made it.   *)
(* An optional integer argument is I(n), or NaI for None.                  *)
(* A call reads the clock once: a call takes no time on the scale of the   *)
(* clock's steps.                                                          *)

SimulationType(name) == [enum |-> TRUE, name |-> name]

Str(name) == [enum |-> FALSE, name |-> name]

inactive_threshold == 180

NoEnvironments == [id \in {} |-> 0]

NoSimulator == [type |-> Str("base"), N |-> 0, k |-> 0, state |-> NoCand]

\* uuid4 drawn once and for all
uuid4_repeating(n) == 1

\* uuid4 after n draws: an identifier none of the n draws gave
uuid4(n) == n + 1

\* create_simulator: the simulator made, or the exception raised (k = 0 in a
\* disk-stack simulator, which has no k)
\* create_simulator that gives every crossing engine the default capacity
create_simulator_ignoring_k(simulator_type, N, k) ==
    IF simulator_type = SimulationType("TowerOfHanoi")
    THEN [raised |-> "none",
          simulator |-> [type |-> simulator_type, N |-> N, k |-> 0,
                         state |-> HDefaultState(N)]]
    ELSE IF simulator_type = SimulationType("RiverCrossing")
    THEN [raised |-> "none",
          simulator |-> [type |-> simulator_type, N |-> N, k |-> 3,
                         state |-> CDefaultState(N)]]
    ELSE [raised |-> "ValueError", simulator |-> NoSimulator]

create_simulator(simulator_type, N, k) ==
    IF simulator_type = SimulationType("TowerOfHanoi")
    THEN [raised |-> "none",
          simulator |-> [type |-> simulator_type, N |-> N, k |-> 0,
                         state |-> HDefaultState(N)]]
    ELSE IF simulator_type = SimulationType("RiverCrossing")
    THEN [raised |-> "none",
          simulator |-> [type |-> simulator_type, N |-> N,
                         k |-> IF k.int THEN k.v ELSE 3,
                         state |-> CDefaultState(N)]]
    ELSE [raised |-> "ValueError", simulator |-> NoSimulator]

\* the identifiers cleanup_inactive_environments gathers in inactive_envs
inactive_envs(envs, current_time) ==
    { env_id \in DOMAIN envs :
        current_time - envs[env_id].last_accessed > inactive_threshold }

\* cleanup_inactive_environments that also removes a session idle for exactly
\* the threshold
cleanup_at_threshold(envs, current_time) ==
    [env_id \in { e \in DOMAIN envs :
                    current_time - envs[e].last_accessed < inactive_threshold }
        |-> envs[env_id]]

\* cleanup_inactive_environments at time current_time: the mapping it leaves
cleanup_inactive_environments(envs, current_time) ==
    [env_id \in (DOMAIN envs) \ inactive_envs(envs, current_time) |-> envs[env_id]]

\* create_environment that numbers the session by the count of sessions held
create_environment_recycling(envs, n, t, simulator_type, N, k) ==
    LET swept == cleanup_inactive_environments(envs, t)
        c     == create_simulator(simulator_type, N, k)
        id    == Cardinality(DOMAIN swept) + 1
    IN IF c.raised # "none"
       THEN [raised |-> c.raised, envs |-> swept, id |-> 0, uuids |-> n]
       ELSE [raised |-> "none",
             envs |-> [e \in (DOMAIN swept) \cup {id} |->
                         IF e = id THEN [simulator |-> c.simulator, last_accessed |-> t]
                         ELSE swept[e]],
             id |-> id, uuids |-> n + 1]

\* create_environment after n draws of uuid4 at time t: the exception raised
\* ("none": none), the mapping left, the identifier of the session made
\* (0: none) and the draws made
create_environment(envs, n, t, simulator_type, N, k) ==
    LET swept == cleanup_inactive_environments(envs, t)
        c     == create_simulator(simulator_type, N, k)
        id    == uuid4(n)
    IN IF c.raised # "none"
       THEN [raised |-> c.raised, envs |-> swept, id |-> 0, uuids |-> n]
       ELSE [raised |-> "none",
             envs |-> [e \in (DOMAIN swept) \cup {id} |->
                         IF e = id THEN [simulator |-> c.simulator, last_accessed |-> t]
                         ELSE swept[e]],
             id |-> id, uuids |-> n + 1]

\* get_environment that refreshes every session
get_environment_refresh_all(envs, env_id, t) ==
    IF env_id \in DOMAIN envs
    THEN [found |-> TRUE,
          envs |-> [e \in DOMAIN envs |-> [envs[e] EXCEPT !.last_accessed = t]]]
    ELSE [found |-> FALSE, envs |-> envs]

\* get_environment that drops a session found idle for longer than the threshold
get_environment_evicting(envs, env_id, t) ==
    IF env_id \in DOMAIN envs /\ t - envs[env_id].last_accessed > inactive_threshold
    THEN [found |-> FALSE, envs |-> [e \in (DOMAIN envs) \ {env_id} |-> envs[e]]]
    ELSE IF env_id \in DOMAIN envs
    THEN [found |-> TRUE, envs |-> [envs EXCEPT ![env_id].last_accessed = t]]
    ELSE [found |-> FALSE, envs |-> envs]

\* get_environment at time t: whether a session is returned, and the mapping left
get_environment(envs, env_id, t) ==
    IF env_id \in DOMAIN envs
    THEN [found |-> TRUE, envs |-> [envs EXCEPT ![env_id].last_accessed = t]]
    ELSE [found |-> FALSE, envs |-> envs]

\* validate_environment that takes the session out of the mapping to look at it
validate_environment_popping(envs, env_id) ==
    [ret |-> env_id \in DOMAIN envs,
     envs |-> [e \in (DOMAIN envs) \ {env_id} |-> envs[e]]]

\* validate_environment: what it returns and the mapping left
validate_environment(envs, env_id) ==
    [ret |-> env_id \in DOMAIN envs, envs |-> envs]

\* delete_environment: what it returns and the mapping left
delete_environment(envs, env_id) ==
    IF env_id \in DOMAIN envs
    THEN [ret |-> TRUE, envs |-> [e \in (DOMAIN envs) \ {env_id} |-> envs[e]]]
    ELSE [ret |-> FALSE, envs |-> envs]

\* init_simulator: the error it answers with, or "env_id" when it answers
\* with the session made, or the exception that left it
init_simulator(envs, n, t, simulator_type, N, k) ==
    IF simulator_type \notin {SimulationType("TowerOfHanoi"), SimulationType("RiverCrossing")}
    THEN [ret |-> "Invalid simulator type", envs |-> envs, id |-> 0, uuids |-> n]
    ELSE IF N < 1
    THEN [ret |-> "N must be at least 1", envs |-> envs, id |-> 0, uuids |-> n]
    ELSE IF k.int /\ k.v < 1
    THEN [ret |-> "k must be at least 1", envs |-> envs, id |-> 0, uuids |-> n]
    ELSE LET c == create_environment(envs, n, t, simulator_type, N, k) IN
         [ret |-> IF c.raised = "none" THEN "env_id" ELSE c.raised,
          envs |-> c.envs, id |-> c.id, uuids |-> c.uuids]

\* execute_moves of the adapter on the simulator of a session
SimExecuteMoves(simulator, moves) ==
    IF simulator.type = SimulationType("TowerOfHanoi")
    THEN HExecuteMoves(simulator.N, simulator.state, moves)
    ELSE CExecuteMoves(simulator.N, simulator.k, simulator.state, moves)

\* execute_moves on sessions that share the engine of their type and size:
\* the state the moves leave is the state of every such session
execute_moves_shared(envs, env_id, t, moves) ==
    LET g == get_environment(envs, env_id, t) IN
    IF ~g.found THEN [ret |-> "Environment not found", envs |-> g.envs]
    ELSE LET simulator == g.envs[env_id].simulator
             r == SimExecuteMoves(simulator, moves)
         IN [ret |-> r.ret,
             envs |-> [e \in DOMAIN g.envs |->
                          IF /\ g.envs[e].simulator.type = simulator.type
                             /\ g.envs[e].simulator.N = simulator.N
                          THEN [g.envs[e] EXCEPT !.simulator.state = r.state]
                          ELSE g.envs[e]]]

\* execute_moves: "Environment not found", "response" or the exception that
\* left it, and the mapping left
execute_moves(envs, env_id, t, moves) ==
    LET g == get_environment(envs, env_id, t) IN
    IF ~g.found THEN [ret |-> "Environment not found", envs |-> g.envs]
    ELSE LET r == SimExecuteMoves(g.envs[env_id].simulator, moves) IN
         [ret |-> r.ret, envs |-> [g.envs EXCEPT ![env_id].simulator.state = r.state]]

\* reset of the simulator of a session, with an explicit state
SimReset(simulator, state) ==
    IF simulator.type = SimulationType("TowerOfHanoi")
    THEN HReset(simulator.N, simulator.state, state)
    ELSE CReset(simulator.N, simulator.state, state)

SimDefaultState(simulator) ==
    IF simulator.type = SimulationType("TowerOfHanoi")
    THEN HDefaultState(simulator.N)
    ELSE CDefaultState(simulator.N)

\* reset_simulator: "Environment not found", "reset_successful", "reset_failed"
\* (the ValueError caught) or the exception that left it; a state of shape
\* "none" is None or "default"
reset_simulator(envs, env_id, t, state) ==
    LET g == get_environment(envs, env_id, t) IN
    IF ~g.found THEN [ret |-> "Environment not found", envs |-> g.envs]
    ELSE LET simulator == g.envs[env_id].simulator IN
         IF state.shape = "none"
         THEN [ret |-> "reset_successful",
               envs |-> [g.envs EXCEPT ![env_id].simulator.state =
                                           SimDefaultState(simulator)]]
         ELSE LET r == SimReset(simulator, state) IN
              [ret |-> CASE r.ret = "None" -> "reset_successful"
                         [] r.ret = "ValueError" -> "reset_failed"
                         [] OTHER -> r.ret,
               envs |-> [g.envs EXCEPT ![env_id].simulator.state = r.state]]

\* get_state without the check of the session found: None has no simulator
get_state_unchecked(envs, env_id, t) ==
    LET g == get_environment(envs, env_id, t) IN
    IF ~g.found THEN [ret |-> "AttributeError", envs |-> g.envs]
    ELSE LET simulator == g.envs[env_id].simulator
             goal_reached ==
                 IF simulator.type = SimulationType("TowerOfHanoi")
                 THEN HIsGoalReached(simulator.N, simulator.state)
                 ELSE IF CIsGoalReached(simulator.state) THEN "True" ELSE "False"
         IN [ret |-> IF goal_reached = "TypeError" THEN "TypeError" ELSE "response",
             envs |-> g.envs]

\* get_state: "Environment not found", "response" or the exception that left it
get_state(envs, env_id, t) ==
    LET g == get_environment(envs, env_id, t) IN
    IF ~g.found THEN [ret |-> "Environment not found", envs |-> g.envs]
    ELSE LET simulator == g.envs[env_id].simulator
             goal_reached ==
                 IF simulator.type = SimulationType("TowerOfHanoi")
                 THEN HIsGoalReached(simulator.N, simulator.state)
                 ELSE IF CIsGoalReached(simulator.state) THEN "True" ELSE "False"
         IN [ret |-> IF goal_reached = "TypeError" THEN "TypeError" ELSE "response",
             envs |-> g.envs]

----------------------------------------------------------------------------
(* Arguments of the calls on the manager and the adapter *)

\* the steps the clock is seen to make: the threshold, and one unit more
Ticks == {inactive_threshold, inactive_threshold + 1}

\* the identifiers asked for: those uuid4 may have drawn
MIds == 1..MaxIds

\* the simulator types offered: the two members of the enumeration, the name
\* of one as a string, and the string of test_init_simulator_validation
MTypes ==
    { SimulationType("TowerOfHanoi"), SimulationType("RiverCrossing"),
      Str("TowerOfHanoi"), Str("InvalidType") }

\* the values of k offered: None, 0 and 3
MKs == { NaI, I(0), I(3) }

\* the lists of moves offered for a session of a type: none, the first move of
\* the type's test sequence, and its first two moves (the second of which fails
\* when N = 1)
MBatches(simulator) ==
    IF simulator.type = SimulationType("RiverCrossing")
    THEN { SubSeq(CScenario, 1, n) : n \in 0..2 }
    ELSE { SubSeq(HScenario, 1, n) : n \in 0..2 }

\* the states offered to reset_simulator for a session of a type: None, a
\* valid state as a list (everything on side 1; the smallest disk on the
\* second peg), a state of a wrong shape (a bare string) and, for the
\* disk-stack engine, a list of three values that are no lists
MStates(simulator) ==
    IF simulator.type = SimulationType("RiverCrossing")
    THEN { NoCCand,
           [shape |-> "list", boat |-> 1, dict |-> TRUE,
            pos |-> [e \in Elems(all_entities(simulator.N)) |-> 1]],
           [shape |-> "other", boat |-> 0, dict |-> FALSE, pos |-> <<>>] }
    ELSE { NoCand,
           [shape |-> "list",
            pegs |-> <<SeqPeg([j \in 1..(simulator.N - 1) |-> I(simulator.N + 1 - j)]),
                       SeqPeg(<<I(1)>>), SeqPeg(<<>>)>>],
           [shape |-> "other", pegs |-> <<>>],
           [shape |-> "list", pegs |-> <<NonSeqPeg, NonSeqPeg, NonSeqPeg>>] }

Threads == 1..MaxThreads

NoSession == [id |-> 0, simulator |-> NoSimulator, last_accessed |-> 0]

NoCall ==
    [op |-> "idle", pc |-> "idle", env_id |-> 0, current_time |-> 0, used |-> 0,
     len |-> 0, pos |-> 0, inactive_envs |-> <<>>, env |-> NoSession,
     ret |-> "None", ages |-> {}]

NoArgs == [simulator_type |-> Str("base"), N |-> 0, k |-> NaI, state |-> NoCand]

\* the simulator of the session asked for; a disk-stack simulator when there
\* is no such session
MSimulator(env_id) ==
    IF env_id \in DOMAIN environments THEN environments[env_id].simulator
    ELSE create_simulator(SimulationType("TowerOfHanoi"), 1, NaI).simulator

----------------------------------------------------------------------------
(* The manager's and the adapter's operations, one call at a time. An      *)
(* action binds the outcome of its call with \E, which computes it once.   *)

MStart ==
    /\ environments = NoEnvironments
    /\ uuids = 0
    /\ now = 0
    /\ rop = "idle"
    /\ rid = 0
    /\ rret = "None"
    /\ rargs = NoArgs
    /\ rpre = NoEnvironments
    /\ issued = {}
    /\ removed = {}
    /\ calls = [t \in Threads |-> NoCall]

\* time passes between two calls
MTick ==
    /\ kind = "SimulationManager"
    /\ rop = "idle"
    /\ \E d \in Ticks :
        /\ now + d <= MaxNow
        /\ now' = now + d
    /\ UNCHANGED <<environments, uuids, rop, rid, rret, rargs, rpre, issued, removed, calls>>
    /\ UNCHANGED <<kind, hvars, cvars>>

MCallCreateEnvironment ==
    /\ kind = "SimulationManager"
    /\ rop = "idle"
    /\ uuids < MaxIds
    /\ \E simulator_type \in MTypes, N \in 1..MaxRegN, k \in MKs \ {I(0)} :
        \E r \in { create_environment(environments, uuids, now, simulator_type, N, k) } :
            /\ environments' = r.envs
            /\ uuids' = r.uuids
            /\ rop' = "create_environment"
            /\ rid' = r.id
            /\ rret' = IF r.raised = "none" THEN "session" ELSE r.raised
            /\ issued' = IF r.id # 0 THEN issued \cup {r.id} ELSE issued
            /\ removed' = removed \cup ((DOMAIN environments) \ (DOMAIN r.envs))
    /\ rargs' = NoArgs
    /\ rpre' = environments
    /\ UNCHANGED <<now, calls>>
    /\ UNCHANGED <<kind, hvars, cvars>>

MCallGetEnvironment ==
    /\ kind = "SimulationManager"
    /\ rop = "idle"
    /\ \E env_id \in MIds :
        \E r \in { get_environment(environments, env_id, now) } :
            /\ environments' = r.envs
            /\ rop' = "get_environment"
            /\ rid' = env_id
            /\ rret' = IF r.found THEN "session" ELSE "None"
            /\ removed' = removed \cup ((DOMAIN environments) \ (DOMAIN r.envs))
    /\ rargs' = NoArgs
    /\ rpre' = environments
    /\ UNCHANGED <<uuids, issued, now, calls>>
    /\ UNCHANGED <<kind, hvars, cvars>>

MCallValidateEnvironment ==
    /\ kind = "SimulationManager"
    /\ rop = "idle"
    /\ \E env_id \in MIds :
        \E r \in { validate_environment(environments, env_id) } :
            /\ environments' = r.envs
            /\ rop' = "validate_environment"
            /\ rid' = env_id
            /\ rret' = IF r.ret THEN "True" ELSE "False"
            /\ removed' = removed \cup ((DOMAIN environments) \ (DOMAIN r.envs))
    /\ rargs' = NoArgs
    /\ rpre' = environments
    /\ UNCHANGED <<uuids, issued, now, calls>>
    /\ UNCHANGED <<kind, hvars, cvars>>

MCallDeleteEnvironment ==
    /\ kind = "SimulationManager"
    /\ rop = "idle"
    /\ \E env_id \in MIds :
        \E r \in { delete_environment(environments, env_id) } :
            /\ environments' = r.envs
            /\ rop' = "delete_environment"
            /\ rid' = env_id
            /\ rret' = IF r.ret THEN "True" ELSE "False"
            /\ removed' = removed \cup ((DOMAIN environments) \ (DOMAIN r.envs))
    /\ rargs' = NoArgs
    /\ rpre' = environments
    /\ UNCHANGED <<uuids, issued, now, calls>>
    /\ UNCHANGED <<kind, hvars, cvars>>

MCallCleanupInactiveEnvironments ==
    /\ kind = "SimulationManager"
    /\ rop = "idle"
    /\ \E envs \in { cleanup_inactive_environments(environments, now) } :
        /\ environments' = envs
        /\ removed' = removed \cup ((DOMAIN environments) \ (DOMAIN envs))
    /\ rop' = "cleanup_inactive_environments"
    /\ rid' = 0
    /\ rret' = "None"
    /\ rargs' = NoArgs
    /\ rpre' = environments
    /\ UNCHANGED <<uuids, issued, now, calls>>
    /\ UNCHANGED <<kind, hvars, cvars>>

MCallInitSimulator ==
    /\ kind = "SimulationManager"
    /\ rop = "idle"
    /\ uuids < MaxIds
    /\ \E simulator_type \in MTypes, N \in 0..MaxRegN, k \in MKs :
        \E r \in { init_simulator(environments, uuids, now, simulator_type, N, k) } :
            /\ environments' = r.envs
            /\ uuids' = r.uuids
            /\ rop' = "init_simulator"
            /\ rid' = r.id
            /\ rret' = r.ret
            /\ rargs' = [simulator_type |-> simulator_type, N |-> N, k |-> k,
                         state |-> NoCand]
            /\ issued' = IF r.id # 0 THEN issued \cup {r.id} ELSE issued
            /\ removed' = removed \cup ((DOMAIN environments) \ (DOMAIN r.envs))
    /\ rpre' = environments
    /\ UNCHANGED <<now, calls>>
    /\ UNCHANGED <<kind, hvars, cvars>>

MCallExecuteMoves ==
    /\ kind = "SimulationManager"
    /\ rop = "idle"
    /\ \E env_id \in MIds :
        \E moves \in MBatches(MSimulator(env_id)) :
            \E r \in { execute_moves(environments, env_id, now, moves) } :
                /\ environments' = r.envs
                /\ rop' = "execute_moves"
                /\ rid' = env_id
                /\ rret' = r.ret
                /\ removed' = removed \cup ((DOMAIN environments) \ (DOMAIN r.envs))
    /\ rargs' = NoArgs
    /\ rpre' = environments
    /\ UNCHANGED <<uuids, issued, now, calls>>
    /\ UNCHANGED <<kind, hvars, cvars>>

MCallResetSimulator ==
    /\ kind = "SimulationManager"
    /\ rop = "idle"
    /\ \E env_id \in MIds :
        \E state \in MStates(MSimulator(env_id)) :
            \E r \in { reset_simulator(environments, env_id, now, state) } :
                /\ environments' = r.envs
                /\ rop' = "reset_simulator"
                /\ rid' = env_id
                /\ rret' = r.ret
                /\ removed' = removed \cup ((DOMAIN environments) \ (DOMAIN r.envs))
                /\ rargs' = [NoArgs EXCEPT !.state = state]
    /\ rpre' = environments
    /\ UNCHANGED <<uuids, issued, now, calls>>
    /\ UNCHANGED <<kind, hvars, cvars>>

MCallGetState ==
    /\ kind = "SimulationManager"
    /\ rop = "idle"
    /\ \E env_id \in MIds :
        \E r \in { get_state(environments, env_id, now) } :
            /\ environments' = r.envs
            /\ rop' = "get_state"
            /\ rid' = env_id
            /\ rret' = r.ret
            /\ removed' = removed \cup ((DOMAIN environments) \ (DOMAIN r.envs))
    /\ rargs' = NoArgs
    /\ rpre' = environments
    /\ UNCHANGED <<uuids, issued, now, calls>>
    /\ UNCHANGED <<kind, hvars, cvars>>

\* the caller takes the outcome and is free to call again
MReturn ==
    /\ kind = "SimulationManager"
    /\ rop # "idle"
    /\ rop' = "idle"
    /\ rid' = 0
    /\ rret' = "None"
    /\ rargs' = NoArgs
    /\ rpre' = NoEnvironments
    /\ UNCHANGED <<environments, uuids, now, issued, removed, calls>>
    /\ UNCHANGED <<kind, hvars, cvars>>

MNext ==
    \/ MTick
    \/ MCallCreateEnvironment
    \/ MCallGetEnvironment
    \/ MCallValidateEnvironment
    \/ MCallDeleteEnvironment
    \/ MCallCleanupInactiveEnvironments
    \/ MCallInitSimulator
    \/ MCallExecuteMoves
    \/ MCallResetSimulator
    \/ MCallGetState
    \/ MReturn

----------------------------------------------------------------------------
(* The manager's methods called from several threads at once. The manager  *)
(* takes no lock, and the interpreter may switch threads between any two   *)
(* bytecodes, so a step is one read or one write of the mapping, of a      *)
(* session's timestamp or of the clock. A call is [op, pc, env_id,         *)
(* current_time, used, len, pos, inactive_envs, env, ret, ages]: pc is the *)
(* line it stands before; used, len and pos are the state of the iterator  *)
(* over environments.items() (the size of the mapping when it was made,    *)
(* the entries it has yet to give, the entry it gave last); env is the     *)
(* session a create has made and not yet stored; ages holds, for each      *)
(* session the call's sweep has removed, its current_time less the         *)
(* timestamp the session had when it was removed.                          *)
(* The mapping keeps its entries in the order they were put in, a deleted  *)
(* entry leaves a gap, and the mapping is not rebuilt while it has had at  *)
(* most five entries: an identifier is its entry's place.                  *)

\* the identifier delete_environment has been called with: the argument of
\* the call, or the first of inactive_envs in a sweep
TTarget(c) ==
    IF c.op = "delete_environment" THEN c.env_id ELSE Head(c.inactive_envs)

\* where a call goes on when delete_environment has returned
TAfterDelete(c, ret) ==
    IF c.op = "delete_environment" THEN [c EXCEPT !.pc = "done", !.ret = ret]
    ELSE [c EXCEPT !.pc = "cleanup_delete", !.inactive_envs = Tail(c.inactive_envs)]

\* the creates that have yet to draw their identifier
TCreating ==
    { t \in Threads : calls[t].op = "create_environment" /\ calls[t].env = NoSession }

\* a thread calls a method of the manager
TCall(t) ==
    /\ kind = "SimulationManager"
    /\ calls[t].op = "idle"
    /\ \/ /\ uuids + Cardinality(TCreating) < MaxIds
          /\ calls' = [calls EXCEPT ![t] =
                          [NoCall EXCEPT !.op = "create_environment", !.pc = "cleanup_time"]]
       \/ calls' = [calls EXCEPT ![t] =
                       [NoCall EXCEPT !.op = "cleanup_inactive_environments",
                                      !.pc = "cleanup_time"]]
       \/ \E env_id \in MIds :
             calls' = [calls EXCEPT ![t] =
                          [NoCall EXCEPT !.op = "get_environment", !.pc = "get_read",
                                         !.env_id = env_id]]
       \/ \E env_id \in MIds :
             calls' = [calls EXCEPT ![t] =
                          [NoCall EXCEPT !.op = "delete_environment", !.pc = "delete_check",
                                         !.env_id = env_id]]
    /\ UNCHANGED <<environments, uuids, now, rop, rid, rret, rargs, rpre, issued, removed>>
    /\ UNCHANGED <<kind, hvars, cvars>>

\* current_time = time.time()
TCleanupTime(t) ==
    /\ kind = "SimulationManager"
    /\ calls[t].pc = "cleanup_time"
    /\ calls' = [calls EXCEPT ![t].current_time = now, ![t].pc = "cleanup_iter"]
    /\ UNCHANGED <<environments, uuids, now, rop, rid, rret, rargs, rpre, issued, removed>>
    /\ UNCHANGED <<kind, hvars, cvars>>

\* the iterator over self.environments.items() is made
TCleanupIter(t) ==
    /\ kind = "SimulationManager"
    /\ calls[t].pc = "cleanup_iter"
    /\ calls' = [calls EXCEPT ![t].used = Cardinality(DOMAIN environments),
                              ![t].len = Cardinality(DOMAIN environments),
                              ![t].pos = 0,
                              ![t].pc = "cleanup_next"]
    /\ UNCHANGED <<environments, uuids, now, rop, rid, rret, rargs, rpre, issued, removed>>
    /\ UNCHANGED <<kind, hvars, cvars>>

\* the iterator is asked for its next entry, and the entry's timestamp is
\* compared: RuntimeError when the mapping has changed its size since the
\* iterator was made, or when it holds an entry more than the iterator has yet
\* to give
TCleanupNext(t) ==
    /\ kind = "SimulationManager"
    /\ calls[t].pc = "cleanup_next"
    /\ LET c    == calls[t]
           rest == { e \in DOMAIN environments : e > c.pos }
           next == CHOOSE e \in rest : \A x \in rest : e <= x
       IN calls' = [calls EXCEPT ![t] =
              IF c.used # Cardinality(DOMAIN environments)
              THEN [c EXCEPT !.pc = "done", !.ret = "RuntimeError"]
              ELSE IF rest = {}
              THEN [c EXCEPT !.pc = "cleanup_delete"]
              ELSE IF c.len = 0
              THEN [c EXCEPT !.pc = "done", !.ret = "RuntimeError"]
              ELSE [c EXCEPT !.pos = next, !.len = c.len - 1,
                             !.inactive_envs =
                                 IF c.current_time - environments[next].last_accessed
                                        > inactive_threshold
                                 THEN Append(c.inactive_envs, next)
                                 ELSE c.inactive_envs]]
    /\ UNCHANGED <<environments, uuids, now, rop, rid, rret, rargs, rpre, issued, removed>>
    /\ UNCHANGED <<kind, hvars, cvars>>

\* the loop over inactive_envs: it calls delete_environment, or it has ended
\* and with it the sweep
TCleanupDelete(t) ==
    /\ kind = "SimulationManager"
    /\ calls[t].pc = "cleanup_delete"
    /\ calls' = [calls EXCEPT ![t] =
           IF calls[t].inactive_envs # <<>> THEN [@ EXCEPT !.pc = "delete_check"]
           ELSE IF calls[t].op = "create_environment" THEN [@ EXCEPT !.pc = "create_make"]
           ELSE [@ EXCEPT !.pc = "done", !.ret = "None"]]
    /\ UNCHANGED <<environments, uuids, now, rop, rid, rret, rargs, rpre, issued, removed>>
    /\ UNCHANGED <<kind, hvars, cvars>>

\* delete_environment: if env_id in self.environments
TDeleteCheck(t) ==
    /\ kind = "SimulationManager"
    /\ calls[t].pc = "delete_check"
    /\ calls' = [calls EXCEPT ![t] =
           IF TTarget(calls[t]) \in DOMAIN environments
           THEN [@ EXCEPT !.pc = "delete_del"]
           ELSE TAfterDelete(calls[t], "False")]
    /\ UNCHANGED <<environments, uuids, now, rop, rid, rret, rargs, rpre, issued, removed>>
    /\ UNCHANGED <<kind, hvars, cvars>>

\* delete_environment: del self.environments[env_id], KeyError when the key
\* is not there
TDeleteDel(t) ==
    /\ kind = "SimulationManager"
    /\ calls[t].pc = "delete_del"
    /\ LET c == calls[t]
           env_id == TTarget(c)
       IN IF env_id \notin DOMAIN environments
          THEN /\ calls' = [calls EXCEPT ![t] = [c EXCEPT !.pc = "done", !.ret = "KeyError"]]
               /\ UNCHANGED <<environments, removed>>
          ELSE /\ environments' = [e \in (DOMAIN environments) \ {env_id} |-> environments[e]]
               /\ removed' = removed \cup {env_id}
               /\ calls' = [calls EXCEPT ![t] =
                      LET d == TAfterDelete(c, "True") IN
                      IF c.op = "delete_environment" THEN d
                      ELSE [d EXCEPT !.ages = @ \cup
                               {c.current_time - environments[env_id].last_accessed}]]
    /\ UNCHANGED <<uuids, now, rop, rid, rret, rargs, rpre, issued>>
    /\ UNCHANGED <<kind, hvars, cvars>>

\* env = SimulationEnvironment(simulator_type, simulator_params)
TCreateMake(t) ==
    /\ kind = "SimulationManager"
    /\ calls[t].pc = "create_make"
    /\ \E simulator_type \in { ty \in MTypes : ty.enum } :
        /\ calls' = [calls EXCEPT ![t].pc = "create_store",
                                  ![t].env =
                                      [id |-> uuid4(uuids),
                                       simulator |-> create_simulator(simulator_type, 1, NaI).simulator,
                                       last_accessed |-> now]]
        /\ uuids' = uuids + 1
    /\ UNCHANGED <<environments, now, rop, rid, rret, rargs, rpre, issued, removed>>
    /\ UNCHANGED <<kind, hvars, cvars>>

\* self.environments[env.id] = env
TCreateStore(t) ==
    /\ kind = "SimulationManager"
    /\ calls[t].pc = "create_store"
    /\ LET env == calls[t].env IN
       /\ environments' =
              [e \in (DOMAIN environments) \cup {env.id} |->
                  IF e = env.id
                  THEN [simulator |-> env.simulator, last_accessed |-> env.last_accessed]
                  ELSE environments[e]]
       /\ issued' = issued \cup {env.id}
       /\ calls' = [calls EXCEPT ![t].pc = "done", ![t].ret = "session", ![t].env_id = env.id]
    /\ UNCHANGED <<uuids, now, rop, rid, rret, rargs, rpre, removed>>
    /\ UNCHANGED <<kind, hvars, cvars>>

\* env = self.environments.get(env_id)
TGetRead(t) ==
    /\ kind = "SimulationManager"
    /\ calls[t].pc = "get_read"
    /\ calls' = [calls EXCEPT ![t] =
           IF calls[t].env_id \in DOMAIN environments
           THEN [@ EXCEPT !.pc = "get_write"]
           ELSE [@ EXCEPT !.pc = "done", !.ret = "None"]]
    /\ UNCHANGED <<environments, uuids, now, rop, rid, rret, rargs, rpre, issued, removed>>
    /\ UNCHANGED <<kind, hvars, cvars>>

\* env.last_accessed = time.time(), on the session the read gave, whether
\* the mapping still holds it or not
TGetWrite(t) ==
    /\ kind = "SimulationManager"
    /\ calls[t].pc = "get_write"
    /\ environments' =
           IF calls[t].env_id \in DOMAIN environments
           THEN [environments EXCEPT ![calls[t].env_id].last_accessed = now]
           ELSE environments
    /\ calls' = [calls EXCEPT ![t].pc = "done", ![t].ret = "session",
                              ![t].current_time = now]
    /\ UNCHANGED <<uuids, now, rop, rid, rret, rargs, rpre, issued, removed>>
    /\ UNCHANGED <<kind, hvars, cvars>>

\* the thread takes the outcome of its call and is free to call again
TReturn(t) ==
    /\ kind = "SimulationManager"
    /\ calls[t].pc = "done"
    /\ calls' = [calls EXCEPT ![t] = NoCall]
    /\ UNCHANGED <<environments, uuids, now, rop, rid, rret, rargs, rpre, issued, removed>>
    /\ UNCHANGED <<kind, hvars, cvars>>

\* time passes, between any two steps
TTick ==
    /\ kind = "SimulationManager"
    /\ \E d \in Ticks :
        /\ now + d <= MaxNow
        /\ now' = now + d
    /\ UNCHANGED <<environments, uuids, rop, rid, rret, rargs, rpre, issued, removed, calls>>
    /\ UNCHANGED <<kind, hvars, cvars>>

TNext ==
    \/ TTick
    \/ \E t \in Threads :
        \/ TCall(t)
        \/ TCleanupTime(t)
        \/ TCleanupIter(t)
        \/ TCleanupNext(t)
        \/ TCleanupDelete(t)
        \/ TDeleteCheck(t)
        \/ TDeleteDel(t)
        \/ TCreateMake(t)
        \/ TCreateStore(t)
        \/ TGetRead(t)
        \/ TGetWrite(t)
        \/ TReturn(t)

----------------------------------------------------------------------------
(* The params property of the two engines. Its outcome is "dict": a new    *)
(* dictionary of N, and of k for the crossing engine.                      *)

HCallParams ==
    /\ kind = "TowerOfHanoi"
    /\ hop = "idle"
    /\ hop' = "params"
    /\ hmove' = <<>>
    /\ hcand' = NoCand
    /\ hret' = "dict"
    /\ hvalid' = "none"
    /\ hpre' = hstate
    /\ UNCHANGED <<hN, hstate, htrace>>
    /\ UNCHANGED <<kind, hmoves, hresp, hsteps>>
    /\ UNCHANGED <<cvars, mvars>>

CCallParams ==
    /\ kind = "RiverCrossing"
    /\ cop = "idle"
    /\ cop' = "params"
    /\ cmove' = NoMove
    /\ ccand' = NoCCand
    /\ cret' = "dict"
    /\ cvalid' = "none"
    /\ cpre' = cstate
    /\ UNCHANGED <<cN, ck, cstate, ctrace>>
    /\ UNCHANGED <<kind, cmoves, cresp>>
    /\ UNCHANGED <<hvars, mvars>>

\* every operation of either engine
ENext ==
    \/ HNext
    \/ CNext
    \/ HCallParams
    \/ CCallParams

----------------------------------------------------------------------------
(* create_simulator called on its own: the simulator it returns is the     *)
(* engine of its type from then on (hN and hstate, or cN, ck and cstate).  *)

\* the values of k in the parameters: none, and 1 to MaxK + 1
FKs == { NaI } \cup { I(j) : j \in 1..(MaxK + 1) }

FCallCreateSimulator ==
    /\ kind = "SimulationManager"
    /\ rop = "idle"
    /\ \E simulator_type \in MTypes, N \in 1..MaxN, k \in FKs :
        \E r \in { create_simulator(simulator_type, N, k) } :
            /\ rop' = "create_simulator"
            /\ rargs' = [simulator_type |-> simulator_type, N |-> N, k |-> k,
                         state |-> NoCand]
            /\ rret' = IF r.raised = "none" THEN "simulator" ELSE r.raised
            /\ IF r.raised # "none"
               THEN UNCHANGED <<hN, hstate, cN, ck, cstate>>
               ELSE IF r.simulator.type = SimulationType("TowerOfHanoi")
               THEN /\ hN' = r.simulator.N
                    /\ hstate' = r.simulator.state
                    /\ UNCHANGED <<cN, ck, cstate>>
               ELSE /\ cN' = r.simulator.N
                    /\ ck' = r.simulator.k
                    /\ cstate' = r.simulator.state
                    /\ UNCHANGED <<hN, hstate>>
    /\ UNCHANGED <<hop, hmove, hcand, hret, hvalid, hpre, htrace, hmoves, hresp, hsteps>>
    /\ UNCHANGED <<cop, cmove, ccand, cret, cvalid, cpre, ctrace, cmoves, cresp>>
    /\ UNCHANGED <<kind, environments, uuids, now, rid, rpre, issued, removed, calls>>

FNext ==
    \/ FCallCreateSimulator
    \/ MReturn

----------------------------------------------------------------------------
(* Specifications: one component is driven, the others are left as constructed *)

HInit == kind = "TowerOfHanoi" /\ HStart /\ cN = 1 /\ ck = 1 /\ CStart /\ MStart

CInit == kind = "RiverCrossing" /\ CStart /\ hN = 1 /\ HStart /\ MStart

SpecHanoi == HInit /\ [][HNext]_vars

SpecCrossing == CInit /\ [][CNext]_vars

\* the disk-stack engine under the caller that counts its moves
HCountedNext == HCountedExecuteMove

SpecHanoiCounted == HInit /\ [][HCountedNext]_vars

\* the crossing engine with no reset to an explicit state
CMovesNext ==
    \/ CCallResetDefault
    \/ CCallExecuteMove
    \/ CCallIsGoalReached
    \/ CReturn

SpecCrossingMoves == CInit /\ [][CMovesNext]_vars

\* an engine of either type, every operation of which is called
SpecEngines == (HInit \/ CInit) /\ [][ENext]_vars

\* the simulator of either type, driven through the adapter
SInit == HInit \/ CInit

SpecSimulator == SInit /\ [][SNext]_vars

\* the manager and the adapter, called by one caller
MInit ==
    /\ kind = "SimulationManager"
    /\ hN = 1 /\ HStart
    /\ cN = 1 /\ ck = 1 /\ CStart
    /\ MStart

SpecManager == MInit /\ [][MNext]_vars

\* create_simulator, called by one caller
SpecFactory == MInit /\ [][FNext]_vars

\* the manager, called from several threads
SpecThreads == MInit /\ [][TNext]_vars

----------------------------------------------------------------------------
(* What the claims say of the disk-stack engine, stated without the engine's *)
(* own predicates                                                            *)

\* s is three lists of positive integers
HThreeIntLists(s) ==
    /\ s.shape \in {"tuple", "list"}
    /\ Len(s.pegs) = 3
    /\ \A p \in 1..3 :
         /\ s.pegs[p].seq
         /\ \A j \in 1..Len(s.pegs[p].d) : s.pegs[p].d[j].int /\ s.pegs[p].d[j].v > 0

\* the places of s where disk k lies
HPlaces(s, k) ==
    UNION { { <<p, j>> : j \in {i \in 1..Len(s.pegs[p].d) : s.pegs[p].d[i].v = k} } :
              p \in 1..3 }

\* the pegs of s hold each of 1..N exactly once and nothing else, and every
\* peg is strictly descending from bottom to top
HExact(N, s) ==
    /\ \A k \in 1..N : Cardinality(HPlaces(s, k)) = 1
    /\ \A p \in 1..3 : \A j \in 1..Len(s.pegs[p].d) : s.pegs[p].d[j].v \in 1..N
    /\ \A p \in 1..3 : \A j \in 1..(Len(s.pegs[p].d) - 1) :
         s.pegs[p].d[j].v > s.pegs[p].d[j + 1].v

HLegal(N, s) == HThreeIntLists(s) /\ HExact(N, s)

\* C1: every state reachable by execute_move and reset calls is a valid state:
\* three pegs holding exactly the disks 1..N once each, each peg strictly
\* descending from bottom to top.
C1_StateAlwaysValid == HLegal(hN, hstate)

\* C5: reset with an explicit state that is not valid for N fails with
\* ValueError and leaves the engine state as it was before the call.
C5_InvalidResetRejected ==
    (hop = "reset" /\ ~HLegal(hN, hcand)) => (hret = "ValueError" /\ hstate = hpre)

\* C7: is_valid_state and is_valid_move always return a boolean and never
\* raise, whatever the state and the move.
C7_ValidatorsNeverRaise ==
    hop \in {"is_valid_state", "is_valid_move"} => hret \in {"True", "False"}

\* the state whose validity the call asked for
HExamined == IF hop = "reset" THEN hcand ELSE hpre

\* C8: on three lists of positive integers is_valid_state returns true exactly
\* when the pegs hold each of 1..N once and every peg is strictly descending.
C8_IsValidStateExact ==
    (hvalid # "none" /\ HThreeIntLists(HExamined))
        => (hvalid = "True" <=> HExact(hN, HExamined))

\* is_valid_state answered false for three descending lists that hold disk 1
\* twice
C8_Witness ==
    /\ hop = "reset"
    /\ HThreeIntLists(hcand)
    /\ hvalid = "False"
    /\ hN = 2
    /\ hcand.pegs = <<SeqPeg(<<I(2), I(1)>>), SeqPeg(<<I(1)>>), SeqPeg(<<>>)>>

\* what C10 requires of a move for is_valid_move to hold in state s
C10_Legal(N, s, move) ==
    /\ HLegal(N, s)
    /\ Len(move) = 3
    /\ move[2] \in {0, 1, 2}
    /\ move[3] \in {0, 1, 2}
    /\ move[2] # move[3]
    /\ LET src == s.pegs[move[2] + 1].d
           dst == s.pegs[move[3] + 1].d
       IN /\ src # <<>>
          /\ src[Len(src)].v = move[1]
          /\ (dst = <<>> \/ dst[Len(dst)].v > move[1])

\* C10: is_valid_move(disk, src, dst) is true exactly when the state is valid,
\* src and dst are different pegs in {0,1,2}, peg src is not empty, disk is its
\* top element and peg dst is empty or has a strictly larger top element.
C10_IsValidMoveExact ==
    hop = "is_valid_move" => (hret = "True" <=> C10_Legal(hN, hpre, hmove))

\* is_valid_move refused to put disk 2 onto disk 1
C10_Witness ==
    /\ hop = "is_valid_move"
    /\ hN = 3
    /\ hpre.pegs = <<SeqPeg(<<I(3), I(2)>>), SeqPeg(<<>>), SeqPeg(<<I(1)>>)>>
    /\ hmove = <<2, 0, 2>>
    /\ hret = "False"

\* the pegs of s after the top of peg src went onto peg dst (pegs counted from 0)
C12_Moved(s, disk, src, dst) ==
    [p \in 1..3 |->
        IF p = src + 1 THEN SeqPeg(SubSeq(s.pegs[p].d, 1, Len(s.pegs[p].d) - 1))
        ELSE IF p = dst + 1 THEN SeqPeg(s.pegs[p].d \o <<I(disk)>>)
        ELSE s.pegs[p]]

\* C12: if is_valid_move(disk, src, dst) is false, execute_move returns false
\* and all three pegs are unchanged; otherwise it returns true, peg src is its
\* old contents without its last element, peg dst its old contents with disk
\* appended, and the third peg is unchanged.
C12_ExecuteMoveEffect ==
    hop = "execute_move" =>
        IF HIsValidMove(hN, hpre, hmove) = "False"
        THEN hret = "False" /\ hstate = hpre
        ELSE /\ hret = "True"
             /\ Len(hmove) = 3
             /\ hstate.pegs = C12_Moved(hpre, hmove[1], hmove[2], hmove[3])

\* C14: is_goal_reached is true if and only if the state is valid and peg 2
\* holds all N disks, pegs 0 and 1 being empty; in the default initial state it
\* is false.
C14_GoalExact ==
    hop = "is_goal_reached" =>
        /\ hret = "True" <=>
              (/\ HLegal(hN, hpre)
               /\ Len(hpre.pegs[3].d) = hN
               /\ hpre.pegs[1].d = <<>>
               /\ hpre.pegs[2].d = <<>>)
        /\ hpre = HDefaultState(hN) => hret = "False"

\* is_goal_reached answered true for three disks
C14_Witness ==
    /\ hop = "is_goal_reached"
    /\ hN = 3
    /\ hpre.pegs = <<SeqPeg(<<>>), SeqPeg(<<>>), SeqPeg(<<I(3), I(2), I(1)>>)>>
    /\ hret = "True"

\* C15: for N = 2, from the default state, execute_move (1,0,1), then (2,0,2),
\* then (1,1,2) each return true; the goal is not reached after the first or
\* the second move; after the third the pegs are ([], [], [2,1]) and
\* is_goal_reached is true.
C15_TwoDiskSolution ==
    hN = 2 =>
        /\ (hop = "execute_move" /\ htrace \in {1, 2, 3}) => hret = "True"
        /\ htrace \in {1, 2} => HIsGoalReached(hN, hstate) = "False"
        /\ (hop = "is_goal_reached" /\ htrace \in {1, 2}) => hret = "False"
        /\ htrace = 3 =>
              /\ hstate.pegs = <<SeqPeg(<<>>), SeqPeg(<<>>), SeqPeg(<<I(2), I(1)>>)>>
              /\ HIsGoalReached(hN, hstate) = "True"
        /\ (hop = "is_goal_reached" /\ htrace = 3) => hret = "True"

\* is_goal_reached was asked after the three moves of the sequence
C15_Witness ==
    /\ hN = 2
    /\ htrace = 3
    /\ hop = "is_goal_reached"
    /\ hret = "True"

----------------------------------------------------------------------------
(* What the claims say of the crossing engine, stated without the engine's *)
(* own predicates                                                          *)

\* the 2N identifiers a_1..a_N, A_1..A_N
CExpected(N) == { <<"a", i>> : i \in 1..N } \cup { <<"A", i>> : i \in 1..N }

\* every principal that shares its side with another principal's escort has
\* its own escort on that side
CChaperoned(N, pos) ==
    \A i \in 1..N :
        (\E j \in (1..N) \ {i} : pos[<<"A", j>>] = pos[<<"a", i>>])
            => pos[<<"A", i>>] = pos[<<"a", i>>]

CLegal(N, s) ==
    /\ s.shape \in {"tuple", "list"}
    /\ s.dict
    /\ s.boat \in {0, 1}
    /\ DOMAIN s.pos = CExpected(N)
    /\ \A e \in CExpected(N) : s.pos[e] \in {0, 1}
    /\ CChaperoned(N, s.pos)

\* C2: in every state reachable by execute_move and reset calls the boat side
\* and every entity side are in {0,1} and the chaperone constraint holds.
C2_ChaperoneInvariant == CLegal(cN, cstate)

\* a move was executed that left a principal on the other side than its escort
C2_Witness ==
    /\ cop = "execute_move"
    /\ cret = "True"
    /\ cN >= 2
    /\ \E i \in 1..cN : cstate.pos[<<"a", i>>] # cstate.pos[<<"A", i>>]

\* the state with the boat flipped and the named entities moved with it
C3_Flipped(s, move) ==
    [shape |-> "tuple", boat |-> 1 - s.boat, dict |-> TRUE,
     pos |-> [e \in DOMAIN s.pos |->
                IF \E j \in 1..Len(move.names) : move.names[j] = e
                THEN 1 - s.boat ELSE s.pos[e]]]

\* C3: from a valid state execute_move(m) returns true exactly when
\* is_valid_move(m) holds and the flipped state satisfies is_valid_state; in
\* every other case it returns false and the state is what it was.
C3_ExecuteTwoStage ==
    (cop = "execute_move" /\ CLegal(cN, cpre)) =>
        /\ cret = "True" <=>
              (/\ CIsValidMove(cN, ck, cpre, cmove)
               /\ CIsValidState(cN, C3_Flipped(cpre, cmove)))
        /\ cret # "True" => (cret = "False" /\ cstate = cpre)

\* a move that is_valid_move accepts was rejected by execute_move
C3_Witness ==
    /\ cop = "execute_move"
    /\ cret = "False"
    /\ CIsValidMove(cN, ck, cpre, cmove)
    /\ cstate = cpre

\* the state after [A_1, a_1] has crossed and [A_1] has come back
C4_Expected(N) ==
    [shape |-> "tuple", boat |-> 0, dict |-> TRUE,
     pos |-> [e \in CExpected(N) |-> IF e = <<"a", 1>> THEN 1 ELSE 0]]

\* C4: for N = 2 and N = 3 with k = 2, from the default state
\* execute_move([A_1, a_1]) and execute_move([A_1]) succeed; then
\* is_valid_move([a_2, A_2]) is true while execute_move([a_2, A_2]) returns
\* false and leaves the state untouched.
C4_GapReachable ==
    (cN \in {2, 3} /\ ck = 2) =>
        /\ (cop = "execute_move" /\ ctrace \in {1, 2}) => cret = "True"
        /\ (cop = "is_valid_move" /\ ctrace = 2 /\ cmove = CScenario[3])
              => (cret = "True" /\ cstate = C4_Expected(cN))
        /\ (cop = "execute_move" /\ ctrace = 3)
              => (cret = "False" /\ cstate = cpre /\ cstate = C4_Expected(cN))

\* the third move of the sequence was executed with three pairs
C4_Witness ==
    /\ cN = 3
    /\ ck = 2
    /\ cop = "execute_move"
    /\ ctrace = 3
    /\ cmove = CScenario[3]

\* C6: reset with an explicit state that fails is_valid_state fails with
\* ValueError and leaves the engine state as it was before the call.
C6_InvalidResetRejected ==
    (cop = "reset" /\ ~CLegal(cN, ccand)) => (cret = "ValueError" /\ cstate = cpre)

\* a candidate whose second component is no dictionary was rejected while the
\* engine was not in its default state
C6_Witness ==
    /\ cop = "reset"
    /\ ccand.shape = "tuple"
    /\ ~ccand.dict
    /\ cret = "ValueError"
    /\ cstate # CDefaultState(cN)

\* the state whose validity the call asked for first
CExamined == IF cop = "reset" THEN ccand ELSE cpre

\* C9: is_valid_state returns true exactly when the boat side is in {0,1}, the
\* keys are the 2N expected identifiers, every side is in {0,1} and every
\* principal that shares its side with another escort has its own there too.
C9_IsValidStateExact ==
    cvalid # "none" => (cvalid = "True" <=> CLegal(cN, CExamined))

\* is_valid_state refused a_1 beside A_2 without A_1
C9_Witness ==
    /\ cop = "reset"
    /\ cN = 2
    /\ ccand.dict
    /\ ccand.boat = 0
    /\ DOMAIN ccand.pos = CExpected(2)
    /\ ccand.pos[<<"a", 1>>] = 1
    /\ ccand.pos[<<"A", 1>>] = 0
    /\ ccand.pos[<<"a", 2>>] = 0
    /\ ccand.pos[<<"A", 2>>] = 1
    /\ cvalid = "False"

\* what C11 asks of a move in state s: s is valid, the move is a list of one to k
\* names, each names one of the 2N entities, none is named twice and every
\* entity named is on the side of the boat
C11_Legal(N, k, s, move) ==
    /\ CLegal(N, s)
    /\ move.list
    /\ Len(move.names) >= 1
    /\ Len(move.names) <= k
    /\ \A j \in 1..Len(move.names) : move.names[j] \in CExpected(N)
    /\ \A i \in 1..Len(move.names) : \A j \in 1..Len(move.names) :
          i # j => move.names[i] # move.names[j]
    /\ \A j \in 1..Len(move.names) : s.pos[move.names[j]] = s.boat

C13_ExecuteMoveEffect ==
    (cop = "execute_move" /\ cret = "True") =>
        /\ cpre.boat \in {0, 1}
        /\ cstate.boat = 1 - cpre.boat
        /\ cstate.boat # cpre.boat
        /\ DOMAIN cstate.pos = DOMAIN cpre.pos
        /\ \A e \in DOMAIN cpre.pos :
              IF \E j \in 1..Len(cmove.names) : cmove.names[j] = e
              THEN cstate.pos[e] = cstate.boat /\ cpre.pos[e] = cpre.boat
              ELSE cstate.pos[e] = cpre.pos[e]

\* a successful move from side 1 back to side 0 that left an entity behind on
\* each side
C13_Witness ==
    /\ cop = "execute_move"
    /\ cret = "True"
    /\ cpre.boat = 1
    /\ \E e \in DOMAIN cpre.pos : \E f \in DOMAIN cpre.pos :
          /\ e \notin Elems(cmove.names)
          /\ f \notin Elems(cmove.names)
          /\ cpre.pos[e] = 0
          /\ cpre.pos[f] = 1
          /\ cstate.pos[e] = 0
          /\ cstate.pos[f] = 1

\* C16: crossing is_goal_reached is true if and only if every one of the 2N
\* entities is on side 1, whatever the boat side; it is false in the default
\* state and in every state with an entity on side 0.
C16_GoalExact ==
    cop = "is_goal_reached" =>
        /\ cret = "True" <=> (\A e \in CExpected(cN) : cpre.pos[e] = 1)
        /\ cpre = CDefaultState(cN) => cret = "False"
        /\ (\E e \in CExpected(cN) : cpre.pos[e] = 0) => cret = "False"

\* is_goal_reached answered true with everyone on side 1 and the boat on side 0
C16_Witness ==
    /\ cop = "is_goal_reached"
    /\ cN = 2
    /\ cpre.boat = 0
    /\ \A e \in CExpected(cN) : cpre.pos[e] = 1
    /\ cret = "True"

----------------------------------------------------------------------------
(* What the claims say of both engines and of the adapter's execute_moves *)

\* s is peg 0 = [N, N-1, ..., 1] with pegs 1 and 2 empty
C17_HCanonical(N, s) ==
    /\ s.shape = "tuple"
    /\ Len(s.pegs) = 3
    /\ \A p \in 1..3 : s.pegs[p].seq
    /\ Len(s.pegs[1].d) = N
    /\ \A j \in 1..N : s.pegs[1].d[j] = I(N + 1 - j)
    /\ s.pegs[2].d = <<>>
    /\ s.pegs[3].d = <<>>

\* s is the boat on side 0 with all 2N entities on side 0
C17_CCanonical(N, s) ==
    /\ s.shape = "tuple"
    /\ s.dict
    /\ s.boat = 0
    /\ DOMAIN s.pos = CExpected(N)
    /\ \A e \in CExpected(N) : s.pos[e] = 0

\* C17: after any sequence of operations reset with no argument sets the
\* disk-stack state to peg 0 = [N, ..., 1] with pegs 1 and 2 empty and the
\* crossing state to boat side 0 with all 2N entities on side 0; the result is
\* a valid state that is not the goal, and a second default reset changes
\* nothing.
C17_DefaultResetCanonical ==
    /\ (kind = "TowerOfHanoi" /\ hop = "reset_default") =>
          /\ hret = "None"
          /\ C17_HCanonical(hN, hstate)
          /\ HLegal(hN, hstate)
          /\ HIsValidState(hN, hstate) = "True"
          /\ HIsGoalReached(hN, hstate) = "False"
          /\ C17_HCanonical(hN, hpre) => hstate = hpre
    /\ (kind = "RiverCrossing" /\ cop = "reset_default") =>
          /\ cret = "None"
          /\ C17_CCanonical(cN, cstate)
          /\ CLegal(cN, cstate)
          /\ CIsValidState(cN, cstate)
          /\ ~CIsGoalReached(cstate)
          /\ C17_CCanonical(cN, cpre) => cstate = cpre

\* a default reset of a crossing engine that stood in its goal state with the
\* boat on side 1
C17_Witness ==
    /\ kind = "RiverCrossing"
    /\ cop = "reset_default"
    /\ cN = 2
    /\ cpre.boat = 1
    /\ \A e \in CExpected(cN) : cpre.pos[e] = 1
    /\ C17_CCanonical(cN, cstate)

\* the moves of the top disk of a peg of the valid state s to any peg
C18_HMoves(s) ==
    { <<s.pegs[f + 1].d[Len(s.pegs[f + 1].d)].v, f, t>> :
        f \in { g \in 0..2 : s.pegs[g + 1].d # <<>> }, t \in 0..2 }

\* in the valid state s the move m of C18_HMoves goes to another peg that is
\* empty or has a larger top
C18_HMovable(s, m) ==
    /\ m[2] # m[3]
    /\ LET dst == s.pegs[m[3] + 1].d
       IN dst = <<>> \/ dst[Len(dst)].v > m[1]

\* the moves of one entity
C18_CMoves(N) == { [list |-> TRUE, names |-> <<e>>] : e \in CExpected(N) }

\* in the valid state s the entity of the move m of C18_CMoves is beside the
\* boat
C18_CMovable(s, m) == s.pos[m.names[1]] = s.boat

\* C18: reset with an explicit state that satisfies the engine's validity
\* predicate succeeds without error and leaves the engine holding the
\* candidate's components, whether it came as a list or as a tuple; the moves
\* that follow are validated against that state.
C18_ValidResetCommits ==
    /\ (kind = "TowerOfHanoi" /\ hop = "reset" /\ hvalid = "True") =>
          /\ hret = "None"
          /\ hstate.shape = "tuple"
          /\ hstate.pegs = hcand.pegs
          /\ \A m \in C18_HMoves(hcand) :
                /\ HIsValidMove(hN, hstate, m) = "True" <=> C18_HMovable(hcand, m)
                /\ HExecuteMove(hN, hstate, m).ret = "True" <=> C18_HMovable(hcand, m)
    /\ (kind = "RiverCrossing" /\ cop = "reset" /\ cvalid = "True") =>
          /\ cret = "None"
          /\ cstate.shape = "tuple"
          /\ cstate.dict
          /\ cstate.boat = ccand.boat
          /\ cstate.pos = ccand.pos
          /\ \A m \in C18_CMoves(cN) :
                CIsValidMove(cN, ck, cstate, m) <=> C18_CMovable(ccand, m)

\* a reset with a valid state given as a list that changed the engine's state
C18_Witness ==
    /\ kind = "TowerOfHanoi"
    /\ hop = "reset"
    /\ hN = 3
    /\ hcand.shape = "list"
    /\ hcand.pegs = <<SeqPeg(<<I(3), I(2)>>), SeqPeg(<<I(1)>>), SeqPeg(<<>>)>>
    /\ hvalid = "True"
    /\ hret = "None"
    /\ hstate # hpre

\* the disk-stack state after execute_move was called with the first j moves,
\* one after the other, from state s
RECURSIVE C19_HAfter(_, _, _, _)
C19_HAfter(N, s, moves, j) ==
    IF j = 0 THEN s
    ELSE HExecuteMove(N, C19_HAfter(N, s, moves, j - 1), moves[j]).state

\* the outcome of execute_move for move j of the list, called after the moves
\* before it
C19_HOutcome(N, s, moves, j) ==
    HExecuteMove(N, C19_HAfter(N, s, moves, j - 1), moves[j]).ret

RECURSIVE C19_CAfter(_, _, _, _, _)
C19_CAfter(N, k, s, moves, j) ==
    IF j = 0 THEN s
    ELSE CExecuteMove(N, k, C19_CAfter(N, k, s, moves, j - 1), moves[j]).state

C19_COutcome(N, k, s, moves, j) ==
    CExecuteMove(N, k, C19_CAfter(N, k, s, moves, j - 1), moves[j]).ret

\* the least element of the non-empty set S of integers
C19_Min(S) == CHOOSE x \in S : \A y \in S : x <= y

\* results holds one entry for each of the first n moves, in order, each with
\* its index and its move, all successful but the last if last_fails
C19_Results(results, moves, n, last_fails) ==
    /\ Len(results) = n
    /\ \A j \in 1..n :
          /\ results[j].move_index = j - 1
          /\ results[j].move = moves[j]
          /\ results[j].successful = ~(last_fails /\ j = n)

\* C19: execute_moves attempts the moves in list order; if the move at index i
\* is the first to fail, the response holds exactly the results of indices
\* 0..i, the last one unsuccessful, no later move is attempted or applied and
\* all_moves_successful is false; if no move fails (the empty list included)
\* there is one successful result per move and all_moves_successful is true.
C19_BatchHaltsAtFirstFailure ==
    /\ (kind = "TowerOfHanoi" /\ hop = "execute_moves") =>
          LET failing == { j \in 1..Len(hmoves) :
                             C19_HOutcome(hN, hpre, hmoves, j) # "True" }
          IN /\ hret = "response"
             /\ IF failing # {}
                THEN LET i == C19_Min(failing) IN
                     /\ C19_Results(hresp.move_results, hmoves, i, TRUE)
                     /\ ~hresp.all_moves_successful
                     /\ hstate = C19_HAfter(hN, hpre, hmoves, i - 1)
                ELSE /\ C19_Results(hresp.move_results, hmoves, Len(hmoves), FALSE)
                     /\ hresp.all_moves_successful
    /\ (kind = "RiverCrossing" /\ cop = "execute_moves") =>
          LET failing == { j \in 1..Len(cmoves) :
                             C19_COutcome(cN, ck, cpre, cmoves, j) # "True" }
          IN /\ cret = "response"
             /\ IF failing # {}
                THEN LET i == C19_Min(failing) IN
                     /\ C19_Results(cresp.move_results, cmoves, i, TRUE)
                     /\ ~cresp.all_moves_successful
                     /\ cstate = C19_CAfter(cN, ck, cpre, cmoves, i - 1)
                ELSE /\ C19_Results(cresp.move_results, cmoves, Len(cmoves), FALSE)
                     /\ cresp.all_moves_successful

\* the moves from index j on (counted from 1) applied to s one after the other
\* as long as execute_move returns true: the state reached, and the index of
\* the move that returned false (0: none did, -1: execute_move raised)
RECURSIVE C20_HPrefix(_, _, _, _)
C20_HPrefix(N, s, moves, j) ==
    IF j > Len(moves) THEN [state |-> s, failed |-> 0]
    ELSE LET r == HExecuteMove(N, s, moves[j]) IN
         IF r.ret = "True" THEN C20_HPrefix(N, r.state, moves, j + 1)
         ELSE [state |-> s, failed |-> IF r.ret = "False" THEN j ELSE -1]

RECURSIVE C20_CPrefix(_, _, _, _, _)
C20_CPrefix(N, k, s, moves, j) ==
    IF j > Len(moves) THEN [state |-> s, failed |-> 0]
    ELSE LET r == CExecuteMove(N, k, s, moves[j]) IN
         IF r.ret = "True" THEN C20_CPrefix(N, k, r.state, moves, j + 1)
         ELSE [state |-> s, failed |-> j]

\* C20: when a batch fails at index i, the effects of the moves 0..i-1 remain
\* applied; the reported final state is the pre-batch state with exactly the
\* successful prefix applied, and the reported goal flag is is_goal_reached of
\* that final state.
C20_BatchNoRollback ==
    /\ (kind = "TowerOfHanoi" /\ hop = "execute_moves") =>
          LET p == C20_HPrefix(hN, hpre, hmoves, 1) IN
          p.failed >= 1 =>
              /\ hret = "response"
              /\ hstate = p.state
              /\ hresp.final_state = p.state
              /\ hresp.goal_reached = (HIsGoalReached(hN, p.state) = "True")
    /\ (kind = "RiverCrossing" /\ cop = "execute_moves") =>
          LET p == C20_CPrefix(cN, ck, cpre, cmoves, 1) IN
          p.failed >= 1 =>
              /\ cret = "response"
              /\ cstate = p.state
              /\ cresp.final_state = p.state
              /\ cresp.goal_reached = CIsGoalReached(p.state)

\* a batch of two moves whose second failed after the first had changed the
\* state
C20_Witness ==
    /\ kind = "TowerOfHanoi"
    /\ hop = "execute_moves"
    /\ Len(hmoves) = 2
    /\ C20_HPrefix(hN, hpre, hmoves, 1).failed = 2
    /\ Len(hresp.move_results) = 2
    /\ hstate # hpre
    /\ hresp.final_state = hstate

----------------------------------------------------------------------------
(* What the claims say of the session registry and of the adapter's        *)
(* handling of sessions                                                    *)

\* the calls that reach create_environment: create_environment itself, and
\* init_simulator when it answers with no error of its own
MCreateCalled ==
    \/ rop = "create_environment"
    \/ rop = "init_simulator" /\ rret \in {"env_id", "ValueError"}

C22_RemovedOnlyByTraffic ==
    /\ \A id \in (DOMAIN rpre) \ (DOMAIN environments) :
          \/ rop = "delete_environment" /\ id = rid
          \/ rop = "cleanup_inactive_environments"
          \/ MCreateCalled
    /\ rop \in {"get_environment", "validate_environment", "execute_moves",
                "reset_simulator", "get_state"}
          => (DOMAIN rpre) \subseteq (DOMAIN environments)
    /\ (rop = "get_environment" /\ rid \in DOMAIN rpre)
          => /\ rret = "session"
             /\ rid \in DOMAIN environments
             /\ \A later \in now..(now + 180) :
                    rid \in DOMAIN cleanup_inactive_environments(environments, later)

\* a get of a session idle for more than 180 units, called before any sweep
C22_Witness ==
    /\ rop = "get_environment"
    /\ rid \in DOMAIN rpre
    /\ now - rpre[rid].last_accessed > 180
    /\ rret = "session"

\* C23: a get of an identifier present in the registry returns the session and
\* leaves the registry as it was but for that session's timestamp, which is the
\* time of the get.
C23_GetRefreshesOnly ==
    (rop = "get_environment" /\ rid \in DOMAIN rpre) =>
        /\ rret = "session"
        /\ DOMAIN environments = DOMAIN rpre
        /\ \A id \in DOMAIN rpre :
              /\ environments[id].simulator = rpre[id].simulator
              /\ environments[id].last_accessed =
                    IF id = rid THEN now ELSE rpre[id].last_accessed

\* a get that moved the timestamp of a session whose engine had been moved,
\* with another, older session in the registry
C23_Witness ==
    /\ rop = "get_environment"
    /\ rid \in DOMAIN rpre
    /\ rpre[rid].last_accessed < now
    /\ rpre[rid].simulator.state # SimDefaultState(rpre[rid].simulator)
    /\ \E other \in (DOMAIN rpre) \ {rid} : rpre[other].last_accessed < now

\* C24: a get of an identifier that is not in the registry (never issued,
\* deleted or swept) returns None and raises nothing; the adapter's execute,
\* reset and inspect on such an identifier answer 'Environment not found'; and
\* each of these calls leaves the registry, every session's engine state and
\* timestamp included, as it was.
C24_UnknownIdSignalled ==
    (/\ rop \in {"get_environment", "execute_moves", "reset_simulator", "get_state"}
     /\ rid \notin DOMAIN rpre) =>
        /\ rret = IF rop = "get_environment" THEN "None" ELSE "Environment not found"
        /\ environments = rpre

\* inspect asked for a session that has left the registry, another session
\* being in it
C24_Witness ==
    /\ rop = "get_state"
    /\ rid \in removed
    /\ rret = "Environment not found"
    /\ rpre # NoEnvironments

\* C25: exists returns true exactly when the identifier is a key of the
\* registry, and leaves the registry, every timestamp included, as it was (so
\* that a sweep sees the session as idle as it was before the probe).
C25_ExistsPure ==
    rop = "validate_environment" =>
        /\ rret = IF rid \in DOMAIN rpre THEN "True" ELSE "False"
        /\ environments = rpre

\* exists answered true for a session idle for more than 180 units, which the
\* next sweep removes
C25_Witness ==
    /\ rop = "validate_environment"
    /\ rret = "True"
    /\ now - environments[rid].last_accessed > 180
    /\ rid \notin DOMAIN cleanup_inactive_environments(environments, now)

\* C26: delete returns true exactly when the identifier was in the registry,
\* and removes it and nothing else; and an identifier that has left the
\* registry, by a sweep or by delete, is in it in no later state, so that get
\* returns None and exists false for it, whatever was called in between.
C26_EvictedIsTerminal ==
    /\ removed \cap (DOMAIN environments) = {}
    /\ (rop = "get_environment" /\ rid \in removed) => rret = "None"
    /\ (rop = "validate_environment" /\ rid \in removed) => rret = "False"
    /\ rop = "delete_environment" =>
          /\ rret = IF rid \in DOMAIN rpre THEN "True" ELSE "False"
          /\ DOMAIN environments = (DOMAIN rpre) \ {rid}
          /\ \A id \in DOMAIN environments : environments[id] = rpre[id]

\* get returned None for an identifier that it had returned a session for
\* before, a session having been created after that one left
C26_Witness ==
    /\ rop = "get_environment"
    /\ rid \in removed
    /\ rret = "None"
    /\ \E id \in DOMAIN environments : id > rid

\* C27: a create that succeeds returns a session whose identifier none of the
\* sessions created before had, present or removed, whose engine is in the
\* default state of its type and whose timestamp is the time of the create; the
\* session is in the registry afterwards (get and exists find it; its own
\* create's sweep did not remove it).
C27_CreateStoresFresh ==
    /\ issued = removed \cup (DOMAIN environments)
    /\ (\/ rop = "create_environment" /\ rret = "session"
        \/ rop = "init_simulator" /\ rret = "env_id") =>
          /\ rid \notin DOMAIN rpre
          /\ rid \notin removed
          /\ rid \in DOMAIN environments
          /\ environments[rid].last_accessed = now
          /\ LET simulator == environments[rid].simulator IN
             IF simulator.type.name = "TowerOfHanoi"
             THEN C17_HCanonical(simulator.N, simulator.state)
             ELSE C17_CCanonical(simulator.N, simulator.state)

\* a create that made a session after one session had been removed and with
\* another, whose engine had been moved, in the registry
C27_Witness ==
    /\ rop = "create_environment"
    /\ rret = "session"
    /\ removed # {}
    /\ \E id \in DOMAIN rpre :
          rpre[id].simulator.state # SimDefaultState(rpre[id].simulator)

\* the two puzzle kinds, as the adapter's callers name them
C30_IsPuzzleKind(simulator_type) ==
    simulator_type.name \in {"TowerOfHanoi", "RiverCrossing"}

\* C30: init with a kind that is none of the two puzzle kinds answers with the
\* invalid-kind error; with a puzzle kind and N < 1, with the error 'N must be
\* at least 1'; with a puzzle kind, N >= 1 and a given k < 1, with the error 'k
\* must be at least 1'; and in each of these cases it makes no session, runs no
\* sweep and leaves the registry as it was.
C30_InitRejectsBadArguments ==
    rop = "init_simulator" =>
        LET bad_kind == ~C30_IsPuzzleKind(rargs.simulator_type)
            bad_N    == rargs.N < 1
            bad_k    == rargs.k.int /\ rargs.k.v < 1
        IN (bad_kind \/ bad_N \/ bad_k) =>
              /\ rret = IF bad_kind THEN "Invalid simulator type"
                        ELSE IF bad_N THEN "N must be at least 1"
                        ELSE "k must be at least 1"
              /\ rid = 0
              /\ environments = rpre

\* C28: the registry's operations are atomic with respect to each other: in
\* every interleaving of the reads and writes of concurrently running create,
\* get, delete and sweep calls no call faults (and so every call ends as it
\* would in some serial execution, where none faults). Here: no call of any
\* thread ends in the RuntimeError of an iteration over a mapping that has
\* changed, or in the KeyError of the deletion of a key that is gone.
C28_NoCallFaults ==
    \A t \in Threads : calls[t].ret \notin {"RuntimeError", "KeyError"}

\* C29: no stale-read eviction: a sweep running beside a get(id) does not
\* remove a session whose timestamp the get has refreshed to t unless
\* now - t > 180. Here: every session a sweep has removed was, at the moment
\* of its removal, more than inactive_threshold older than the sweep's
\* current_time.
C29_NoStaleEviction ==
    \A t \in Threads : \A age \in calls[t].ages : age > inactive_threshold

----------------------------------------------------------------------------
(* What the claims say of the two engines beyond their contracts *)

\* C35: for the disk-stack engine the two predicates agree: whenever
\* execute_move(m) has been called, it has returned True if and only if
\* is_valid_move(m) was True in the state the call was made in (there is no
\* second stage that turns a valid move down).
C35_ExecuteIffValid ==
    hop = "execute_move" =>
        ((hret = "True") <=> (HIsValidMove(hN, hpre, hmove) = "True"))

\* a valid move onto a peg that holds a disk has been executed
C35_Witness ==
    /\ hop = "execute_move"
    /\ hret = "True"
    /\ Len(hmove) = 3
    /\ Len(hpre.pegs[hmove[3] + 1].d) > 0
    /\ hstate # hpre

C36_MoveSelfInverse ==
    (cop = "execute_move" /\ cret = "True") =>
        \E r \in { CExecuteMove(cN, ck, cstate, cmove) } :
            r.ret = "True" /\ r.state = cpre

\* a successful move of two passengers from side 1 back to side 0
C36_Witness ==
    /\ cop = "execute_move"
    /\ cret = "True"
    /\ cpre.boat = 1
    /\ cstate.boat = 0
    /\ Len(cmove.names) = 2
    /\ cstate # cpre

\* C37: in every crossing state reached from the default state by
\* execute_move calls and default resets only, at least one entity is on the
\* boat's side, and whenever is_goal_reached answers True the boat is on
\* side 1.
C37_BoatNeverAlone ==
    /\ \E e \in DOMAIN cstate.pos : cstate.pos[e] = cstate.boat
    /\ (cop = "is_goal_reached" /\ cret = "True") => cstate.boat = 1

\* is_goal_reached has answered True for a crossing of two pairs, reached by
\* moves alone
C37_Witness ==
    /\ cop = "is_goal_reached"
    /\ cret = "True"
    /\ cN >= 2
    /\ cstate.boat = 1

\* the states n or fewer execute_move calls lead to from the states of S
RECURSIVE C40_Within(_, _, _)
C40_Within(N, S, n) ==
    IF n = 0 THEN S
    ELSE C40_Within(N, S \cup { HExecuteMove(N, s, move).state :
                                    s \in S, move \in HMoves(N) }, n - 1)

\* C40: disk-stack goal distance: from the default state the goal state is
\* reached by successful execute_move calls, and by no fewer than 2^N - 1 of
\* them. Here: in every state the counting caller reaches in which
\* is_goal_reached is True, it has counted at least 2^N - 1 moves; and for
\* every N, a state in which is_goal_reached is True is among the states
\* that 2^N - 1 or fewer execute_move calls lead to from the default state.
C40_GoalDistance ==
    /\ HIsGoalReached(hN, hstate) = "True" => hsteps >= 2 ^ hN - 1
    /\ hsteps = 0 =>
           \E s \in C40_Within(hN, {HDefaultState(hN)}, 2 ^ hN - 1) :
               HIsGoalReached(hN, s) = "True"

\* the goal of the largest stack has been reached, in 2^N - 1 moves
C40_Witness ==
    /\ hN = MaxN
    /\ HIsGoalReached(hN, hstate) = "True"
    /\ hsteps = 2 ^ hN - 1

\* C38: queries are pure: for both engines, is_valid_state, is_valid_move,
\* is_goal_reached and params leave the engine's state unchanged, in every
\* state and for every argument, and no operation changes N or k after the
\* construction.
C38_QueriesPure ==
    [][/\ hN' = hN
       /\ cN' = cN
       /\ ck' = ck
       /\ hop' \in {"is_valid_state", "is_valid_move", "is_goal_reached", "params"}
              => hstate' = hstate
       /\ cop' \in {"is_valid_state", "is_valid_move", "is_goal_reached", "params"}
              => cstate' = cstate]_vars

\* is_valid_move has answered True for a move of the crossing engine, away
\* from the default state, and the state is the one before the call
C38_Witness ==
    /\ cop = "is_valid_move"
    /\ cret = "True"
    /\ cstate = cpre
    /\ cstate # CDefaultState(cN)

----------------------------------------------------------------------------
(* What the claims say of the factory and of the adapter *)

\* C33: the factory's dispatch: create_simulator(kind, params) returns a
\* disk-stack engine of size params.N for the disk-stack tag and a crossing
\* engine of size params.N and capacity params.k (3 when k is absent) for
\* the crossing tag, each in its default initial state, and fails with the
\* unknown-kind error for every other tag without creating anything.
C33_FactoryDispatch ==
    [][rop' = "create_simulator" =>
        IF rargs'.simulator_type = SimulationType("TowerOfHanoi")
        THEN /\ rret' = "simulator"
             /\ hN' = rargs'.N
             /\ C17_HCanonical(rargs'.N, hstate')
             /\ UNCHANGED <<cN, ck, cstate>>
        ELSE IF rargs'.simulator_type = SimulationType("RiverCrossing")
        THEN /\ rret' = "simulator"
             /\ cN' = rargs'.N
             /\ ck' = (IF rargs'.k.int THEN rargs'.k.v ELSE 3)
             /\ C17_CCanonical(rargs'.N, cstate')
             /\ UNCHANGED <<hN, hstate>>
        ELSE /\ rret' = "ValueError"
             /\ UNCHANGED <<hN, hstate, cN, ck, cstate>>]_vars

\* a crossing engine of two pairs has been made with a capacity given that
\* is not the default
C33_Witness ==
    /\ rop = "create_simulator"
    /\ rret = "simulator"
    /\ rargs.simulator_type = SimulationType("RiverCrossing")
    /\ rargs.N = 2
    /\ rargs.k = I(2)
    /\ cN = 2
    /\ ck = 2
    /\ cstate = CDefaultState(2)

\* C39: sessions are isolated: execute_moves, reset_simulator or get_state
\* addressed to one identifier changes only that session's engine state and
\* timestamp; the engine state and the timestamp of every other session, and
\* the set of registered identifiers, are as before the call.
C39_SessionsIsolated ==
    rop \in {"execute_moves", "reset_simulator", "get_state"} =>
        /\ DOMAIN environments = DOMAIN rpre
        /\ \A e \in DOMAIN environments : e # rid => environments[e] = rpre[e]
        /\ rid \in DOMAIN environments =>
               /\ environments[rid].simulator.type = rpre[rid].simulator.type
               /\ environments[rid].simulator.N = rpre[rid].simulator.N
               /\ environments[rid].simulator.k = rpre[rid].simulator.k

\* execute_moves has changed the state of one of two sessions of the same
\* type, which had the same state and the same timestamp before
C39_Witness ==
    /\ rop = "execute_moves"
    /\ rid \in DOMAIN environments
    /\ environments[rid].simulator.state # rpre[rid].simulator.state
    /\ environments[rid].last_accessed # rpre[rid].last_accessed
    /\ \E e \in DOMAIN environments :
        /\ e # rid
        /\ rpre[e] = rpre[rid]

\* C32: the adapter's reset with an invalid explicit state reports failure
\* and changes nothing: for an existing session and an explicit state that is
\* not valid for its kind (a bare string, a list of values that are no
\* lists), reset_simulator answers reset_successful = false with an error, no
\* exception leaves it, and the session's state is the one before the call;
\* with no state (or "default") it answers reset_successful = true and the
\* state is the canonical initial one.
C32_InvalidResetReported ==
    (rop = "reset_simulator" /\ rid \in DOMAIN rpre) =>
        LET simulator == rpre[rid].simulator
            hanoi     == simulator.type = SimulationType("TowerOfHanoi")
            state     == rargs.state
            after     == environments[rid].simulator.state
        IN IF state.shape = "none"
           THEN /\ rret = "reset_successful"
                /\ IF hanoi THEN C17_HCanonical(simulator.N, after)
                            ELSE C17_CCanonical(simulator.N, after)
           ELSE IF (hanoi /\ ~HLegal(simulator.N, HStaged(state)))
                   \/ (~hanoi /\ ~CLegal(simulator.N, state))
           THEN /\ rret = "reset_failed"
                /\ after = simulator.state
           ELSE TRUE

\* C31: init succeeds for the two kind names: init_simulator called with
\* simulator_type the string 'TowerOfHanoi' or 'RiverCrossing', N >= 1 and
\* (if given) k >= 1 registers a new session and returns its env_id with the
\* same kind and the parameters (N, and k for the crossing kind); the
\* session then holds an engine of that kind and those parameters in the
\* default initial state, for which get_state answers with goal_reached
\* false.
C31_InitByName ==
    (/\ rop = "init_simulator"
     /\ rargs.simulator_type \in {Str("TowerOfHanoi"), Str("RiverCrossing")}
     /\ rargs.N >= 1
     /\ rargs.k.int => rargs.k.v >= 1) =>
        /\ rret = "env_id"
        /\ rid \in (DOMAIN environments) \ (DOMAIN rpre)
        /\ LET simulator == environments[rid].simulator IN
           /\ simulator.type.name = rargs.simulator_type.name
           /\ simulator.N = rargs.N
           /\ IF simulator.type.name = "TowerOfHanoi"
              THEN /\ C17_HCanonical(rargs.N, simulator.state)
                   /\ HIsGoalReached(simulator.N, simulator.state) = "False"
              ELSE /\ C17_CCanonical(rargs.N, simulator.state)
                   /\ simulator.k = (IF rargs.k.int THEN rargs.k.v ELSE 3)
                   /\ ~CIsGoalReached(simulator.state)
        /\ get_state(environments, rid, now).ret = "response"

====
